---------------------------- MODULE Spec2Model ----------------------------
(***************************************************************************)
(* Table reconstruction and confidence-scored extraction (thomasc23/OCR).  *)
(*                                                                         *)
(*   scripts/table_detector.py              detect_table_structure         *)
(*   scripts/claude_api_table_extraction.py TableExtractor                 *)
(*   scripts/batch_processor.py             batch_process                  *)
(*                                                                         *)
(* Text is a sequence of one-character strings, so that the string         *)
(* operations of the code (endswith, split, rstrip, lower, strip, upper,   *)
(* the substring test, re.sub) are computed and not assumed.  Horizontal   *)
(* positions are hundredths of the page width (0.36 is 36).  A confidence  *)
(* is the exact fraction <<numerator, denominator>>.                       *)
(***************************************************************************)
EXTENDS Integers, Sequences, FiniteSets, TLC

VARIABLES
    \* detect_table_structure (table_detector.py)
    lines,            \* the page's text lines, sorted by y
    line_idx,         \* number of lines the row loop has consumed
    col_idx,          \* column of the last classified line
    table_data,       \* rows assembled so far
    current_state,    \* the section heading in force
    last_values,      \* column name -> last value that was not a ditto mark
    processed_data,   \* rows after the ditto and State pass
    pc_detect,        \* "scan", "post", "done" (or "idle")
    \* TableExtractor._parse_csv_with_confidence
    csv_text,         \* the text to parse
    cleaned_text,     \* the text after _clean_csv_text
    parse_lines,      \* cleaned_text.strip().split('\n') of the manual tier
    header,           \* the manual tier's header fields
    data,             \* the manual tier's rows so far
    row_confidences,  \* the manual tier's row confidences so far
    df,               \* the returned table
    confidence,       \* the returned confidence
    pc_parse,         \* "clean", "strict", "relaxed", "manual", "rows", "returned"
    \* TableExtractor.extract_table_from_pdf_page
    retry_count,      \* the number of attempts allowed
    attempt,          \* the loop variable
    best_df,          \* the best table so far
    best_confidence,  \* its confidence
    outcomes,         \* what each attempt so far produced
    events,           \* the service calls and the sleeps, in order
    result,           \* the returned (table, confidence)
    pc_extract,       \* "loop", "after_loop", "returned", "raised_api_error", "raised_no_data"
    \* batch_process (batch_processor.py)
    all_files,        \* the files found
    max_workers,      \* the size of the process pool
    namesake,         \* the file named processing_summary, if there is one
    task,             \* file -> "queued", "running", "done": its future
    outcome,          \* file -> what its future holds once done
    finish_order,     \* the files in the order their futures completed
    early,            \* the futures that were done when as_completed was called
    handled,          \* the futures as_completed has yielded
    results,          \* the ledger in memory
    summary_file,     \* processing_summary.csv: whether it exists, and what it holds
    summary_writes,   \* every content the orchestrator wrote to it, in order
    failed_log,       \* the "Failed files" warnings of the final summary
    pc_batch,         \* "start", "submitted", "collect", "done"
    \* process_document (ocr_main.py)
    doc,              \* the pages of the document, each the OCR result of a page
    pages_to_process, \* how many of them are processed
    page_num,         \* the loop variable
    all_table_data,   \* the rows of the pages processed so far
    page_tables,      \* what detect_table_structure returned for each page so far
    output_csv,       \* the output file: whether it exists, and its rows
    pc_doc,           \* "loop", "detect", "done"
    \* TableExtractor.process_pdf_document
    total_pages,      \* the number of pages of the PDF
    start_page,       \* first page to process, 1-indexed
    end_page,         \* last page to process
    pdf_page,         \* the loop variable page_num of process_pdf_document
    pdf_results,      \* the (table, confidence) entries so far
    pdf_log,          \* the pages handed to extract_table_from_pdf_page, and how each call ended
    pdf_files,        \* the files written to output_dir
    pc_pdf,           \* "loop", "extract", "done"
    \* validate_csv_file (validation.py)
    csv_file,         \* the file at csv_path: whether it can be read, its header and its rows
    vdf,              \* the table pd.read_csv made of it
    vcol,             \* how many columns the ditto loop has checked
    valid,            \* result["valid"]
    issues,           \* result["issues"]
    warnings,         \* result["warnings"]
    row_count,        \* result["row_count"]
    pc_validate       \* "read", "columns", "empty", "ditto", "state", "returned", "raised"

detectVars == <<lines, line_idx, col_idx, table_data, current_state,
                last_values, processed_data, pc_detect>>

parseVars == <<csv_text, cleaned_text, parse_lines, header, data, row_confidences,
               df, confidence, pc_parse>>

extractVars == <<retry_count, attempt, best_df, best_confidence, outcomes, events,
                 result, pc_extract>>

batchVars == <<all_files, max_workers, namesake, task, outcome, finish_order, early,
               handled, results, summary_file, summary_writes, failed_log, pc_batch>>

docVars == <<doc, pages_to_process, page_num, all_table_data, page_tables, output_csv,
            pc_doc>>

pdfVars == <<total_pages, start_page, end_page, pdf_page, pdf_results, pdf_log, pdf_files,
            pc_pdf>>

validateVars == <<csv_file, vdf, vcol, valid, issues, warnings, row_count, pc_validate>>

\* what each component leaves alone
notDetect == <<parseVars, extractVars, batchVars, docVars, pdfVars, validateVars>>

notParse == <<detectVars, extractVars, batchVars, docVars, pdfVars, validateVars>>

notExtract == <<detectVars, parseVars, batchVars, docVars, pdfVars, validateVars>>

notBatch == <<detectVars, parseVars, extractVars, docVars, pdfVars, validateVars>>

notDoc == <<parseVars, extractVars, batchVars, pdfVars, validateVars>>

notPdf == <<detectVars, parseVars, batchVars, docVars, validateVars>>

notValidate == <<detectVars, parseVars, extractVars, batchVars, docVars, pdfVars>>

vars == <<detectVars, parseVars, extractVars, batchVars, docVars, pdfVars, validateVars>>

-----------------------------------------------------------------------------
(* Characters and strings *)

LowerChars == <<"a","b","c","d","e","f","g","h","i","j","k","l","m","n","o","p","q","r","s","t","u","v","w","x","y","z">>

UpperChars == <<"A","B","C","D","E","F","G","H","I","J","K","L","M","N","O","P","Q","R","S","T","U","V","W","X","Y","Z">>

LowerChar(c) ==
    IF \E i \in DOMAIN UpperChars : UpperChars[i] = c
    THEN LowerChars[CHOOSE i \in DOMAIN UpperChars : UpperChars[i] = c]
    ELSE c

UpperChar(c) ==
    IF \E i \in DOMAIN LowerChars : LowerChars[i] = c
    THEN UpperChars[CHOOSE i \in DOMAIN LowerChars : LowerChars[i] = c]
    ELSE c

\* str.lower() and str.upper()
Lower(s) == [i \in 1..Len(s) |-> LowerChar(s[i])]

Upper(s) == [i \in 1..Len(s) |-> UpperChar(s[i])]

\* what str.strip(), str.split() and the regex class \s take for white space
IsSpace(c) == c \in {" ", "\t", "\n", "\r"}

IsDigit(c) == c \in {"0","1","2","3","4","5","6","7","8","9"}

\* str.strip()
RECURSIVE LStrip(_)
LStrip(s) == IF s # <<>> /\ IsSpace(Head(s)) THEN LStrip(Tail(s)) ELSE s

RECURSIVE RStrip(_)
RStrip(s) ==
    IF s # <<>> /\ IsSpace(s[Len(s)]) THEN RStrip(SubSeq(s, 1, Len(s) - 1)) ELSE s

Strip(s) == RStrip(LStrip(s))

\* str.rstrip(".") removes every trailing period
RECURSIVE RStripDot(_)
RStripDot(s) ==
    IF s # <<>> /\ s[Len(s)] = "." THEN RStripDot(SubSeq(s, 1, Len(s) - 1)) ELSE s

\* str.endswith(".")
EndsWithDot(s) == s # <<>> /\ s[Len(s)] = "."

\* len(str.split()): the number of maximal runs of non-space characters
TokenCount(s) ==
    Cardinality({i \in 1..Len(s) : ~IsSpace(s[i]) /\ (i = 1 \/ IsSpace(s[i - 1]))})

\* pat in s
Contains(s, pat) ==
    \E i \in 0..(Len(s) - Len(pat)) : SubSeq(s, i + 1, i + Len(pat)) = pat

\* Python's None, a value no text equals
None == <<"None">>

-----------------------------------------------------------------------------
(* detect_table_structure: constants *)

column_names ==
    <<"Name", "Where born", "Whence appointed", "Post-office", "Compensation per annum">>

ColumnNameSet == {column_names[i] : i \in DOMAIN column_names}

\* [0.0, 0.36, 0.47, 0.59, 0.7, 1.0] in hundredths
column_positions == <<0, 36, 47, 59, 70, 100>>

\* the intervals (start, end) built from column_positions
columns(ls) ==
    IF ls # <<>>
    THEN [i \in 1..(Len(column_positions) - 1) |->
              <<column_positions[i], column_positions[i + 1]>>]
    ELSE <<>>

\* line_idx < 5
HeaderLineCount == 5

\* line["x"] < 0.3
HeadingMaxX == 30

RunningHeader ==
    <<"C","L","E","R","K","S"," ","I","N"," ","P","O","S","T","-","O","F","F","I","C","E","S">>

Ditto == <<"d","o">>

\* col_idx = None
NoColumn == -1

-----------------------------------------------------------------------------
(* detect_table_structure: the tests and steps of the row loop *)

\* line_idx < 5 or "CLERKS IN POST-OFFICES" in line["text"].upper()
\* (idx is the zero-based index of enumerate)
IsSkipped(idx, line) ==
    idx < HeaderLineCount \/ Contains(Upper(line.text), RunningHeader)

\* the heading test without the limit on the number of tokens
IsStateHeadingAnyLength(line) ==
    /\ line.x < HeadingMaxX
    /\ EndsWithDot(line.text)

\* x < 0.3 and text.endswith(".") and len(text.split()) <= 2
IsStateHeading(line) ==
    /\ line.x < HeadingMaxX
    /\ EndsWithDot(line.text)
    /\ TokenCount(line.text) <= 2

ClassifyColumnHalfOpenRight(cols, x) ==
    IF \E i \in DOMAIN cols : cols[i][1] < x /\ x <= cols[i][2]
    THEN (CHOOSE i \in DOMAIN cols :
              /\ cols[i][1] < x /\ x <= cols[i][2]
              /\ \A j \in DOMAIN cols : (cols[j][1] < x /\ x <= cols[j][2]) => i <= j) - 1
    ELSE NoColumn

\* intervals closed at both ends
ClassifyColumnClosed(cols, x) ==
    IF \E i \in DOMAIN cols : cols[i][1] <= x /\ x <= cols[i][2]
    THEN (CHOOSE i \in DOMAIN cols :
              /\ cols[i][1] <= x /\ x <= cols[i][2]
              /\ \A j \in DOMAIN cols : (cols[j][1] <= x /\ x <= cols[j][2]) => i <= j) - 1
    ELSE NoColumn

\* the first interval with start <= x < end (zero-based), else None
ClassifyColumn(cols, x) ==
    IF \E i \in DOMAIN cols : cols[i][1] <= x /\ x < cols[i][2]
    THEN (CHOOSE i \in DOMAIN cols :
              /\ cols[i][1] <= x /\ x < cols[i][2]
              /\ \A j \in DOMAIN cols : (cols[j][1] <= x /\ x < cols[j][2]) => i <= j) - 1
    ELSE NoColumn

\* a write into the first row instead of the last
FirstRow(td) == 1

\* table_data[-1]: the row a later column's line is written into
OpenRow(td) == Len(td)

\* {col: "" for col in column_names}
EmptyRow == [c \in ColumnNameSet |-> <<>>]

\* lower().strip() == "do"
IsDitto(cell) == Strip(Lower(cell)) = Ditto

\* lines 19-45: the non-empty lines of the page, stably sorted by y
RECURSIVE InsertByY(_, _)
InsertByY(sorted, l) ==
    IF sorted = <<>> THEN <<l>>
    ELSE IF sorted[Len(sorted)].y <= l.y THEN Append(sorted, l)
    ELSE Append(InsertByY(SubSeq(sorted, 1, Len(sorted) - 1), l), sorted[Len(sorted)])

RECURSIVE SortByY(_)
SortByY(ls) ==
    IF ls = <<>> THEN <<>>
    ELSE InsertByY(SortByY(SubSeq(ls, 1, Len(ls) - 1)), ls[Len(ls)])

CollectLines(page) ==
    LET stripped == [i \in 1..Len(page) |->
                        [text |-> Strip(page[i].text), x |-> page[i].x, y |-> page[i].y]]
    IN  SortByY(SelectSeq(stripped, LAMBDA l : l.text # <<>>))

ResolveCellCaseSensitive(cell, last) == IF Strip(cell) = Ditto THEN last ELSE cell

ResolveCellShift(cell, last) == last

ResolveCellKeep(cell, last) == cell

\* lines 103-104: the cell after the pass
ResolveCell(cell, last) == IF IsDitto(cell) THEN last ELSE cell

\* lines 103-106: the column's last_values entry after the pass
NextLastValue(cell, last) == IF IsDitto(cell) THEN last ELSE cell

\* lines 99-106 on one row: the State stamp, then the five columns
ResolveRow(row, lv, state) ==
    [c \in ColumnNameSet \cup {"State"} |->
        IF c = "State" THEN state ELSE ResolveCell(row[c], lv[c])]

\* lines 96-108 as a whole: the pass over the rows of a table, top to
\* bottom, from the last_values lv
RECURSIVE DittoPass(_, _, _)
DittoPass(rows, lv, state) ==
    IF rows = <<>> THEN <<>>
    ELSE LET row == Head(rows)
         IN  <<ResolveRow(row, lv, state)>>
                 \o DittoPass(Tail(rows),
                              [c \in ColumnNameSet |-> NextLastValue(row[c], lv[c])],
                              state)

-----------------------------------------------------------------------------
(* detect_table_structure: the actions *)

CurLine == lines[line_idx + 1]

Scanning == pc_detect = "scan" /\ line_idx < Len(lines)

\* lines 68-69
ScanSkip ==
    /\ Scanning
    /\ IsSkipped(line_idx, CurLine)
    /\ line_idx' = line_idx + 1
    /\ UNCHANGED <<lines, col_idx, table_data, current_state, last_values,
                   processed_data, pc_detect>>
    /\ UNCHANGED notDetect

\* lines 72-75
ScanHeading ==
    /\ Scanning
    /\ ~IsSkipped(line_idx, CurLine)
    /\ IsStateHeading(CurLine)
    /\ current_state' = RStripDot(CurLine.text)
    /\ line_idx' = line_idx + 1
    /\ UNCHANGED <<lines, col_idx, table_data, last_values, processed_data, pc_detect>>
    /\ UNCHANGED notDetect

Classifying ==
    /\ Scanning
    /\ ~IsSkipped(line_idx, CurLine)
    /\ ~IsStateHeading(CurLine)

\* lines 78-85: no interval holds x
ScanUnclassified ==
    /\ Classifying
    /\ ClassifyColumn(columns(lines), CurLine.x) = NoColumn
    /\ col_idx' = NoColumn
    /\ line_idx' = line_idx + 1
    /\ UNCHANGED <<lines, table_data, current_state, last_values, processed_data, pc_detect>>
    /\ UNCHANGED notDetect

\* lines 88-91: a column-0 line opens a row
ScanNewRow ==
    /\ Classifying
    /\ ClassifyColumn(columns(lines), CurLine.x) = 0
    /\ col_idx' = 0
    /\ table_data' = Append(table_data, [EmptyRow EXCEPT ![column_names[1]] = CurLine.text])
    /\ line_idx' = line_idx + 1
    /\ UNCHANGED <<lines, current_state, last_values, processed_data, pc_detect>>
    /\ UNCHANGED notDetect

\* lines 92-93: a later column's line is written into the last row
ScanAddCell ==
    /\ Classifying
    /\ ClassifyColumn(columns(lines), CurLine.x) > 0
    /\ table_data # <<>>
    /\ col_idx' = ClassifyColumn(columns(lines), CurLine.x)
    /\ table_data' = [table_data EXCEPT
                          ![OpenRow(table_data)][column_names[col_idx' + 1]] = CurLine.text]
    /\ line_idx' = line_idx + 1
    /\ UNCHANGED <<lines, current_state, last_values, processed_data, pc_detect>>
    /\ UNCHANGED notDetect

\* line 92 false: a later column's line before any row is dropped
ScanDropCell ==
    /\ Classifying
    /\ ClassifyColumn(columns(lines), CurLine.x) > 0
    /\ table_data = <<>>
    /\ col_idx' = ClassifyColumn(columns(lines), CurLine.x)
    /\ line_idx' = line_idx + 1
    /\ UNCHANGED <<lines, table_data, current_state, last_values, processed_data, pc_detect>>
    /\ UNCHANGED notDetect

\* line 96: the row loop is exhausted, the second pass starts
StartPostProcess ==
    /\ pc_detect = "scan"
    /\ line_idx = Len(lines)
    /\ processed_data' = <<>>
    /\ pc_detect' = "post"
    /\ UNCHANGED <<lines, line_idx, col_idx, table_data, current_state, last_values>>
    /\ UNCHANGED notDetect

\* lines 97-108 for one row; the row is the dict held by table_data, which
\* is changed in place
PostProcessRow ==
    /\ pc_detect = "post"
    /\ Len(processed_data) < Len(table_data)
    /\ LET k == Len(processed_data) + 1
           row == ResolveRow(table_data[k], last_values, current_state)
       IN  /\ table_data' = [table_data EXCEPT ![k] = row]
           /\ processed_data' = Append(processed_data, row)
           /\ last_values' = [c \in ColumnNameSet |->
                                  NextLastValue(table_data[k][c], last_values[c])]
    /\ UNCHANGED <<lines, line_idx, col_idx, current_state, pc_detect>>
    /\ UNCHANGED notDetect

\* lines 110-111
ReturnProcessed ==
    /\ pc_detect = "post"
    /\ Len(processed_data) = Len(table_data)
    /\ pc_detect' = "done"
    /\ UNCHANGED <<lines, line_idx, col_idx, table_data, current_state, last_values,
                   processed_data>>
    /\ UNCHANGED notDetect

DetectNext ==
    \/ ScanSkip
    \/ ScanHeading
    \/ ScanUnclassified
    \/ ScanNewRow
    \/ ScanAddCell
    \/ ScanDropCell
    \/ StartPostProcess
    \/ PostProcessRow
    \/ ReturnProcessed

\* lines 62-64 after the lines of `page` were collected and sorted
DetectInit(page) ==
    /\ lines = CollectLines(page)
    /\ line_idx = 0
    /\ col_idx = NoColumn
    /\ table_data = <<>>
    /\ current_state = None
    /\ last_values = [c \in ColumnNameSet |-> <<>>]
    /\ processed_data = <<>>
    /\ pc_detect = "scan"

\* no call in progress
DetectIdle ==
    /\ lines = <<>>
    /\ line_idx = 0
    /\ col_idx = NoColumn
    /\ table_data = <<>>
    /\ current_state = None
    /\ last_values = [c \in ColumnNameSet |-> <<>>]
    /\ processed_data = <<>>
    /\ pc_detect = "idle"

-----------------------------------------------------------------------------
(* TableExtractor._clean_csv_text *)

RECURSIVE DigitRun(_, _)
\* the number of digits of s from position i on
DigitRun(s, i) == IF i <= Len(s) /\ IsDigit(s[i]) THEN 1 + DigitRun(s, i + 1) ELSE 0

RECURSIVE SpaceRun(_, _)
\* the number of white-space characters of s from position i on
SpaceRun(s, i) == IF i <= Len(s) /\ IsSpace(s[i]) THEN 1 + SpaceRun(s, i + 1) ELSE 0

\* a match of (\$?\d+)\s+(\d{2}) at the head of s: <<length of group 1,
\* length of the white space>>, or <<0, 0>>.  Every quantifier is followed
\* by a character class disjoint from its own, so the greedy match is the
\* only one.
MoneyMatch(s) ==
    LET p == IF s # <<>> /\ s[1] = "$" THEN 1 ELSE 0
        d == DigitRun(s, p + 1)
        w == SpaceRun(s, p + d + 1)
    IN  IF /\ d >= 1
           /\ w >= 1
           /\ p + d + w + 2 <= Len(s)
           /\ IsDigit(s[p + d + w + 1])
           /\ IsDigit(s[p + d + w + 2])
        THEN <<p + d, w>>
        ELSE <<0, 0>>

RECURSIVE JoinMoney(_)
\* re.sub(r'(\$?\d+)\s+(\d{2})', r'\1\2', s): matches left to right, the
\* search resuming where the last match ended
JoinMoney(s) ==
    IF s = <<>> THEN <<>>
    ELSE LET m == MoneyMatch(s)
         IN  IF m[1] > 0
             THEN SubSeq(s, 1, m[1]) \o SubSeq(s, m[1] + m[2] + 1, m[1] + m[2] + 2)
                      \o JoinMoney(SubSeq(s, m[1] + m[2] + 3, Len(s)))
             ELSE <<s[1]>> \o JoinMoney(Tail(s))

\* re.sub(r'(\$)(\d+)', r'\1\2', s) writes every match back as it was
DollarDigits(s) == s

RECURSIVE ReplaceDoubledQuotes(_)
\* s.replace('""', '"')
ReplaceDoubledQuotes(s) ==
    IF s = <<>> THEN <<>>
    ELSE IF Len(s) >= 2 /\ s[1] = "\"" /\ s[2] = "\""
         THEN <<"\"">> \o ReplaceDoubledQuotes(SubSeq(s, 3, Len(s)))
         ELSE <<s[1]>> \o ReplaceDoubledQuotes(Tail(s))

CleanCsvText(s) == ReplaceDoubledQuotes(DollarDigits(JoinMoney(s)))

-----------------------------------------------------------------------------
(* TableExtractor._parse_csv_with_confidence: values *)

RECURSIVE SplitOn(_, _)
\* s.split(sep) for a one-character sep
SplitOn(s, sep) ==
    IF \A i \in 1..Len(s) : s[i] # sep THEN <<s>>
    ELSE LET i == CHOOSE i \in 1..Len(s) : s[i] = sep /\ \A j \in 1..(i - 1) : s[j] # sep
         IN  <<SubSeq(s, 1, i - 1)>> \o SplitOn(SubSeq(s, i + 1, Len(s)), sep)

RECURSIVE JoinWith(_, _)
\* sep.join(fields)
JoinWith(fields, sep) ==
    IF fields = <<>> THEN <<>>
    ELSE IF Len(fields) = 1 THEN fields[1]
    ELSE fields[1] \o <<sep>> \o JoinWith(Tail(fields), sep)

\* confidences: 1.0, 0.8, 0.0, and the 0.5 of line 144
ConfOne == <<1, 1>>

ConfRelaxed == <<4, 5>>

ConfZero == <<0, 1>>

ConfHalf == <<1, 2>>

ConfGT(a, b) == a[1] * b[2] > b[1] * a[2]

ConfEq(a, b) == a[1] * b[2] = b[1] * a[2]

RECURSIVE ConfSum(_)
ConfSum(cs) ==
    IF cs = <<>> THEN <<0, 1>>
    ELSE LET r == ConfSum(Tail(cs))
         IN  <<cs[1][1] * r[2] + r[1] * cs[1][2], cs[1][2] * r[2]>>

\* the confidence of the first row in place of the mean
FirstConfidence(cs) == IF cs = <<>> THEN ConfHalf ELSE cs[1]

\* sum(row_confidences) / len(row_confidences) if row_confidences else 0.5
AvgConfidence(cs) ==
    IF cs = <<>> THEN ConfHalf
    ELSE LET t == ConfSum(cs) IN <<t[1], t[2] * Len(cs)>>

\* a missing value of a pandas table
NaN == <<"NaN">>

\* a table: the column names, the index fields and the cells of each row,
\* and the extraction_confidence column (empty when the table has none)
Frame(cols, idx, rws, confs) ==
    [columns |-> cols, index |-> idx, rows |-> rws, extraction_confidence |-> confs]

\* pd.DataFrame()
EmptyFrame == Frame(<<>>, <<>>, <<>>, <<>>)

\* df.empty
IsEmptyFrame(d) == Len(d.rows) = 0 \/ Len(d.columns) = 0

-----------------------------------------------------------------------------
(* pd.read_csv as the two first tiers use it, on text without quote         *)
(* characters: the records are the lines that are not blank, split on the   *)
(* delimiter; a record after the first data record with more fields than    *)
(* the wider of the header and the first data record is an error; shorter   *)
(* records are padded with NaN; when the first data record is wider than    *)
(* the header its leading fields become the index.                          *)

Records(text, delim) ==
    LET ls == SelectSeq(SplitOn(text, "\n"), LAMBDA l : Strip(l) # <<>>)
    IN  [i \in 1..Len(ls) |-> SplitOn(ls[i], delim)]

Wider(a, b) == IF a > b THEN a ELSE b

TooWideExact(recs) ==
    \E j \in 2..Len(recs) : Len(recs[j]) # Len(recs[1])

TooWide(recs) ==
    \E j \in 3..Len(recs) : Len(recs[j]) > Wider(Len(recs[1]), Len(recs[2]))

FrameOf(recs) ==
    LET h == Len(recs[1])
        m == IF Len(recs) >= 2 /\ Len(recs[2]) > h THEN Len(recs[2]) - h ELSE 0
        pad(r) == r \o [i \in 1..(h + m - Len(r)) |-> NaN]
    IN  Frame(recs[1],
              [j \in 1..(Len(recs) - 1) |-> SubSeq(pad(recs[j + 1]), 1, m)],
              [j \in 1..(Len(recs) - 1) |-> SubSeq(pad(recs[j + 1]), m + 1, m + h)],
              <<>>)

\* characters in ASCII order, for csv.Sniffer's last resort
AsciiOrder ==
    <<"\t","\n","\r"," ","\"","$",",","-",".","0","1","2","3","4","5","6","7","8","9",":",";",
      "A","B","C","D","E","F","G","H","I","J","K","L","M","N","O","P","Q","R","S","T","U","V","W","X","Y","Z",
      "a","b","c","d","e","f","g","h","i","j","k","l","m","n","o","p","q","r","s","t","u","v","w","x","y","z">>

Ord(c) == CHOOSE i \in DOMAIN AsciiOrder : AsciiOrder[i] = c

CountChar(s, c) == Cardinality({i \in 1..Len(s) : s[i] = c})

\* csv.Sniffer.preferred
Preferred == <<",", "\t", ";", " ", ":">>

\* csv.Sniffer().sniff(line).delimiter for one line without quote
\* characters: every character of the line is a candidate; a single
\* candidate is taken, else the first preferred one, else the most frequent
\* (the greatest by code among the most frequent)
Sniff(line) ==
    LET cand == {line[i] : i \in 1..Len(line)}
    IN  IF Cardinality(cand) = 1 THEN CHOOSE c \in cand : TRUE
        ELSE IF \E i \in DOMAIN Preferred : Preferred[i] \in cand
        THEN Preferred[CHOOSE i \in DOMAIN Preferred :
                           /\ Preferred[i] \in cand
                           /\ \A j \in 1..(i - 1) : Preferred[j] \notin cand]
        ELSE CHOOSE c \in cand : \A e \in cand :
                 \/ CountChar(line, e) < CountChar(line, c)
                 \/ CountChar(line, e) = CountChar(line, c) /\ Ord(e) <= Ord(c)

\* a strict parse that fails on every text
StrictNeverParses(text) == FALSE

\* line 98 returns: pd.read_csv(io.StringIO(text)) raises nothing
StrictParses(text) ==
    LET recs == Records(text, ",") IN recs # <<>> /\ ~TooWide(recs)

StrictFrame(text) == FrameOf(Records(text, ","))

\* the first line of the text, which the python engine hands to the sniffer
FirstLine(text) == SplitOn(text, "\n")[1]

\* the python engine reads the header, the first data record and the one
\* after it before anything else: when that third record has as many fields
\* as the first two together, the second record names the index columns and
\* the records start at the third
IndexNamesRow(recs) ==
    Len(recs) >= 3 /\ Len(recs[3]) = Len(recs[2]) + Len(recs[1])

\* the python engine's error: a record with more fields than the columns
\* and the index columns together
TooWidePython(recs) ==
    IF IndexNamesRow(recs)
    THEN \E j \in 3..Len(recs) : Len(recs[j]) > Len(recs[2]) + Len(recs[1])
    ELSE TooWide(recs)

FrameOfPython(recs) ==
    IF IndexNamesRow(recs)
    THEN LET h == Len(recs[1])
             m == Len(recs[2])
             pad(r) == r \o [i \in 1..(h + m - Len(r)) |-> NaN]
         IN  Frame(recs[1],
                   [j \in 1..(Len(recs) - 2) |-> SubSeq(pad(recs[j + 2]), 1, m)],
                   [j \in 1..(Len(recs) - 2) |-> SubSeq(pad(recs[j + 2]), m + 1, m + h)],
                   <<>>)
    ELSE FrameOf(recs)

\* line 104 returns: pd.read_csv(..., sep=None, engine='python') raises
\* nothing (the sniffer raises on an empty first line)
RelaxedParses(text) ==
    /\ FirstLine(text) # <<>>
    /\ LET recs == Records(text, Sniff(FirstLine(text)))
       IN  recs # <<>> /\ ~TooWidePython(recs)

RelaxedFrame(text) == FrameOfPython(Records(text, Sniff(FirstLine(text))))

-----------------------------------------------------------------------------
(* The manual tier, lines 110-149 *)

\* all or nothing: 1.0 for a row of the header's length, else 0.0
RowConfidenceExact(k, h) == <<IF k = h THEN 1 ELSE 0, 1>>

\* min(len(fields) / len(header), 1.0)
RowConfidence(k, h) == <<IF k < h THEN k ELSE h, h>>

FitRowTruncate(fields, h) ==
    IF Len(fields) > h THEN SubSeq(fields, 1, h)
    ELSE fields \o [i \in 1..(h - Len(fields)) |-> <<>>]

\* lines 130-136: the extra fields joined into the last column, or the row
\* padded with empty strings
FitRow(fields, h) ==
    IF Len(fields) > h
    THEN SubSeq(fields, 1, h - 1) \o <<JoinWith(SubSeq(fields, h, Len(fields)), ",")>>
    ELSE IF Len(fields) < h
    THEN fields \o [i \in 1..(h - Len(fields)) |-> <<>>]
    ELSE fields

\* cleaned_text.strip().split('\n')
ManualLines(text) == SplitOn(Strip(text), "\n")

\* lines 110-149 as a whole
ManualParse(text) ==
    LET ls == ManualLines(text)
    IN  IF Len(ls) <= 1 THEN [df |-> EmptyFrame, confidence |-> ConfZero]
        ELSE LET hd == SplitOn(ls[1], ",")
                 fs == [j \in 1..(Len(ls) - 1) |-> SplitOn(ls[j + 1], ",")]
                 cs == [j \in 1..(Len(ls) - 1) |-> RowConfidence(Len(fs[j]), Len(hd))]
             IN  [df |-> Frame(hd, <<>>,
                               [j \in 1..(Len(ls) - 1) |-> FitRow(fs[j], Len(hd))], cs),
                  confidence |-> AvgConfidence(cs)]

\* _parse_csv_with_confidence as a function of the text
ParseCsvWithConfidence(text) ==
    LET c == CleanCsvText(text)
    IN  IF StrictParses(c) THEN [df |-> StrictFrame(c), confidence |-> ConfOne]
        ELSE IF RelaxedParses(c) THEN [df |-> RelaxedFrame(c), confidence |-> ConfRelaxed]
        ELSE ManualParse(c)

-----------------------------------------------------------------------------
(* _parse_csv_with_confidence: the actions *)

\* line 94
ParseClean ==
    /\ pc_parse = "clean"
    /\ cleaned_text' = CleanCsvText(csv_text)
    /\ pc_parse' = "strict"
    /\ UNCHANGED <<csv_text, parse_lines, header, data, row_confidences, df, confidence>>
    /\ UNCHANGED notParse

\* lines 97-99
StrictSucceeds ==
    /\ pc_parse = "strict"
    /\ StrictParses(cleaned_text)
    /\ df' = StrictFrame(cleaned_text)
    /\ confidence' = ConfOne
    /\ pc_parse' = "returned"
    /\ UNCHANGED <<csv_text, cleaned_text, parse_lines, header, data, row_confidences>>
    /\ UNCHANGED notParse

\* line 100
StrictFails ==
    /\ pc_parse = "strict"
    /\ ~StrictParses(cleaned_text)
    /\ pc_parse' = "relaxed"
    /\ UNCHANGED <<csv_text, cleaned_text, parse_lines, header, data, row_confidences,
                   df, confidence>>
    /\ UNCHANGED notParse

\* lines 102-105
RelaxedSucceeds ==
    /\ pc_parse = "relaxed"
    /\ RelaxedParses(cleaned_text)
    /\ df' = RelaxedFrame(cleaned_text)
    /\ confidence' = ConfRelaxed
    /\ pc_parse' = "returned"
    /\ UNCHANGED <<csv_text, cleaned_text, parse_lines, header, data, row_confidences>>
    /\ UNCHANGED notParse

\* lines 106-110
RelaxedFails ==
    /\ pc_parse = "relaxed"
    /\ ~RelaxedParses(cleaned_text)
    /\ parse_lines' = ManualLines(cleaned_text)
    /\ pc_parse' = "manual"
    /\ UNCHANGED <<csv_text, cleaned_text, header, data, row_confidences, df, confidence>>
    /\ UNCHANGED notParse

\* lines 111-113
ManualNotEnough ==
    /\ pc_parse = "manual"
    /\ Len(parse_lines) <= 1
    /\ df' = EmptyFrame
    /\ confidence' = ConfZero
    /\ pc_parse' = "returned"
    /\ UNCHANGED <<csv_text, cleaned_text, parse_lines, header, data, row_confidences>>
    /\ UNCHANGED notParse

\* lines 116-120
ManualHeader ==
    /\ pc_parse = "manual"
    /\ Len(parse_lines) > 1
    /\ header' = SplitOn(parse_lines[1], ",")
    /\ data' = <<>>
    /\ row_confidences' = <<>>
    /\ pc_parse' = "rows"
    /\ UNCHANGED <<csv_text, cleaned_text, parse_lines, df, confidence>>
    /\ UNCHANGED notParse

\* lines 122-138 for one line
ManualRow ==
    /\ pc_parse = "rows"
    /\ Len(data) < Len(parse_lines) - 1
    /\ LET fields == SplitOn(parse_lines[Len(data) + 2], ",")
       IN  /\ row_confidences' =
                  Append(row_confidences, RowConfidence(Len(fields), Len(header)))
           /\ data' = Append(data, FitRow(fields, Len(header)))
    /\ UNCHANGED <<csv_text, cleaned_text, parse_lines, header, df, confidence, pc_parse>>
    /\ UNCHANGED notParse

\* lines 140-149
ManualReturn ==
    /\ pc_parse = "rows"
    /\ Len(data) = Len(parse_lines) - 1
    /\ df' = Frame(header, <<>>, data, row_confidences)
    /\ confidence' = AvgConfidence(row_confidences)
    /\ pc_parse' = "returned"
    /\ UNCHANGED <<csv_text, cleaned_text, parse_lines, header, data, row_confidences>>
    /\ UNCHANGED notParse

ParseNext ==
    \/ ParseClean
    \/ StrictSucceeds
    \/ StrictFails
    \/ RelaxedSucceeds
    \/ RelaxedFails
    \/ ManualNotEnough
    \/ ManualHeader
    \/ ManualRow
    \/ ManualReturn

\* the call of _parse_csv_with_confidence(text)
ParseInit(text) ==
    /\ csv_text = text
    /\ cleaned_text = <<>>
    /\ parse_lines = <<>>
    /\ header = <<>>
    /\ data = <<>>
    /\ row_confidences = <<>>
    /\ df = EmptyFrame
    /\ confidence = ConfZero
    /\ pc_parse = "clean"

\* no call in progress
ParseIdle ==
    /\ csv_text = <<>>
    /\ cleaned_text = <<>>
    /\ parse_lines = <<>>
    /\ header = <<>>
    /\ data = <<>>
    /\ row_confidences = <<>>
    /\ df = EmptyFrame
    /\ confidence = ConfZero
    /\ pc_parse = "idle"

-----------------------------------------------------------------------------
(* TableExtractor.extract_table_from_pdf_page, lines 173-234 *)

NeverGoodEnough == <<1, 1>>

\* line 215: confidence > 0.9
GoodEnough == <<9, 10>>

NeverUsable == <<1, 1>>

\* line 219: confidence > 0.5
Usable == <<1, 2>>

AttemptsRemainShort(a, n) == a < n - 2

\* lines 219 and 225: attempt < retry_count - 1
AttemptsRemain(a, n) == a < n - 1

\* line 152: retry_count: int = 3
DefaultRetryCount == 3

ReplaceAnyNonEmpty(c, d, best) == ~IsEmptyFrame(d)

\* line 210
ShouldReplace(c, d, best) == ConfGT(c, best) /\ ~IsEmptyFrame(d)

\* what an attempt leaves in the log
Parsed(r) == [raised |-> FALSE, df |-> r.df, confidence |-> r.confidence]

Raised == [raised |-> TRUE, df |-> EmptyFrame, confidence |-> ConfZero]

\* lines 208-212
KeepBest(r) ==
    /\ best_df' = IF ShouldReplace(r.confidence, r.df, best_confidence)
                  THEN r.df ELSE best_df
    /\ best_confidence' = IF ShouldReplace(r.confidence, r.df, best_confidence)
                          THEN r.confidence ELSE best_confidence
    /\ outcomes' = Append(outcomes, Parsed(r))

InLoop == pc_extract = "loop" /\ attempt < retry_count

\* lines 179-216: the service answers and the parse is good enough: break
AttemptGoodEnough(text) ==
    /\ InLoop
    /\ LET r == ParseCsvWithConfidence(text)
       IN  /\ ConfGT(r.confidence, GoodEnough)
           /\ KeepBest(r)
    /\ events' = Append(events, "call")
    /\ pc_extract' = "after_loop"
    /\ UNCHANGED <<retry_count, attempt, result>>
    /\ UNCHANGED notExtract

\* lines 179-222: a usable parse with attempts left: sleep and go on
AttemptUsable(text) ==
    /\ InLoop
    /\ AttemptsRemain(attempt, retry_count)
    /\ LET r == ParseCsvWithConfidence(text)
       IN  /\ ~ConfGT(r.confidence, GoodEnough)
           /\ ConfGT(r.confidence, Usable)
           /\ KeepBest(r)
    /\ events' = events \o <<"call", "sleep">>
    /\ attempt' = attempt + 1
    /\ UNCHANGED <<retry_count, result, pc_extract>>
    /\ UNCHANGED notExtract

\* lines 179-219: neither: the loop goes to its next attempt, if any
AttemptFallsThrough(text) ==
    /\ InLoop
    /\ LET r == ParseCsvWithConfidence(text)
       IN  /\ ~ConfGT(r.confidence, GoodEnough)
           /\ ~(ConfGT(r.confidence, Usable) /\ AttemptsRemain(attempt, retry_count))
           /\ KeepBest(r)
    /\ events' = Append(events, "call")
    /\ attempt' = attempt + 1
    /\ pc_extract' = IF attempt + 1 = retry_count THEN "after_loop" ELSE "loop"
    /\ UNCHANGED <<retry_count, result>>
    /\ UNCHANGED notExtract

\* lines 224-227: the attempt raises with attempts left
AttemptRaisesRetry ==
    /\ InLoop
    /\ AttemptsRemain(attempt, retry_count)
    /\ outcomes' = Append(outcomes, Raised)
    /\ events' = events \o <<"call", "sleep">>
    /\ attempt' = attempt + 1
    /\ UNCHANGED <<retry_count, best_df, best_confidence, result, pc_extract>>
    /\ UNCHANGED notExtract

\* lines 228-229: the last attempt raises
AttemptRaisesLast ==
    /\ InLoop
    /\ ~AttemptsRemain(attempt, retry_count)
    /\ outcomes' = Append(outcomes, Raised)
    /\ events' = Append(events, "call")
    /\ pc_extract' = "raised_api_error"
    /\ UNCHANGED <<retry_count, attempt, best_df, best_confidence, result>>
    /\ UNCHANGED notExtract

\* lines 231-232
ExtractNoData ==
    /\ pc_extract = "after_loop"
    /\ IsEmptyFrame(best_df)
    /\ pc_extract' = "raised_no_data"
    /\ UNCHANGED <<retry_count, attempt, best_df, best_confidence, outcomes, events, result>>
    /\ UNCHANGED notExtract

\* line 234
ExtractReturn ==
    /\ pc_extract = "after_loop"
    /\ ~IsEmptyFrame(best_df)
    /\ result' = [df |-> best_df, confidence |-> best_confidence]
    /\ pc_extract' = "returned"
    /\ UNCHANGED <<retry_count, attempt, best_df, best_confidence, outcomes, events>>
    /\ UNCHANGED notExtract

NoResult == [df |-> EmptyFrame, confidence |-> ConfZero]

\* the call extract_table_from_pdf_page(..., retry_count=n), lines 173-176
ExtractInit(n) ==
    /\ retry_count = n
    /\ attempt = 0
    /\ best_df = EmptyFrame
    /\ best_confidence = ConfZero
    /\ outcomes = <<>>
    /\ events = <<>>
    /\ result = NoResult
    /\ pc_extract = IF n = 0 THEN "after_loop" ELSE "loop"

\* no call in progress
ExtractIdle ==
    /\ retry_count = DefaultRetryCount
    /\ attempt = 0
    /\ best_df = EmptyFrame
    /\ best_confidence = ConfZero
    /\ outcomes = <<>>
    /\ events = <<>>
    /\ result = NoResult
    /\ pc_extract = "idle"

-----------------------------------------------------------------------------
(* batch_processor.py: process_single_file and batch_process *)

\* what process_document did for a file: it wrote a non-empty output, it
\* left none, or it raised
DocumentOutcomes == {"written", "no_output", "raises"}

\* lines 43-44 and 109: the output of a file named processing_summary has
\* the path of the ledger, output_dir / "processing_summary.csv"
NoNamesake == 0

WritesLedgerPath(f) == f = namesake

\* line 50: the output path holds a non-empty file once process_document
\* has returned
OutputPresent(f, doc_outcome) ==
    \/ doc_outcome = "written"
    \/ WritesLedgerPath(f) /\ summary_file.exists

\* the status of the dictionary process_single_file returns, lines 42-82
process_single_file(f, doc_outcome) ==
    CASE doc_outcome = "raises" -> "error"
      [] doc_outcome # "raises" /\ OutputPresent(f, doc_outcome) -> "success"
      [] doc_outcome # "raises" /\ ~OutputPresent(f, doc_outcome) -> "empty_output"

\* a future whose result() raises, line 130
FutureRaised == "raised"

\* a ledger entry
Entry(f, status) == [file |-> f, status |-> status]

\* processing_summary.csv: absent, or holding the entries last written
NoFile == [exists |-> FALSE, content |-> <<>>, holds |-> "nothing"]

\* pd.DataFrame(entries).to_csv(summary_file, index=False)
Written(entries) == [exists |-> TRUE, content |-> entries, holds |-> "ledger"]

\* ocr_main.py line 82, save_to_csv(all_table_data, output_csv) in a worker:
\* the file holds the table of a document, no entry
DocumentTable == [exists |-> TRUE, content |-> <<>>, holds |-> "table"]

\* lines 132-138
ExecutorErrorEntry(f) == Entry(f, "executor_error")

MarkHandledNever(h, f) == h

\* as_completed yields every future once
MarkHandled(h, f) == h \cup {f}

Running == {f \in all_files : task[f] = "running"}

\* the pool works from the submission on, before and after as_completed is
\* called
PoolWorking == pc_batch \in {"submitted", "collect"}

RECURSIVE InSubmissionOrder(_)
InSubmissionOrder(S) ==
    IF S = {} THEN <<>>
    ELSE LET f == CHOOSE g \in S : \A h \in S : g <= h
         IN <<f>> \o InSubmissionOrder(S \ {f})

Done == {f \in all_files : task[f] = "done"}

\* line 121, as_completed: the futures that were done when it was called
\* come first, in the order of a set; the others follow as they complete
Yieldable ==
    IF early \ handled # {} THEN early \ handled
    ELSE LET later == SelectSeq(finish_order, LAMBDA f : f \notin handled)
         IN IF later = <<>> THEN {} ELSE {Head(later)}

\* lines 102-104: nothing to do
BatchNoFiles ==
    /\ pc_batch = "start"
    /\ all_files = {}
    /\ pc_batch' = "done"
    /\ UNCHANGED <<all_files, max_workers, namesake, task, outcome, finish_order, early,
                   handled, results, summary_file, summary_writes, failed_log>>
    /\ UNCHANGED notBatch

\* lines 109-118: every file is submitted to the pool
BatchSubmit ==
    /\ pc_batch = "start"
    /\ all_files # {}
    /\ results' = <<>>
    /\ task' = [f \in all_files |-> "queued"]
    /\ pc_batch' = "submitted"
    /\ UNCHANGED <<all_files, max_workers, namesake, outcome, finish_order, early, handled,
                   summary_file, summary_writes, failed_log>>
    /\ UNCHANGED notBatch

\* a worker process of the pool takes a queued call
WorkerStart(f) ==
    /\ PoolWorking
    /\ task[f] = "queued"
    /\ Cardinality(Running) < max_workers
    /\ task' = [task EXCEPT ![f] = "running"]
    /\ UNCHANGED <<all_files, max_workers, namesake, outcome, finish_order, early, handled,
                   results, summary_file, summary_writes, failed_log, pc_batch>>
    /\ UNCHANGED notBatch

\* process_single_file returns in the worker, lines 29-82: process_document
\* has written the output path if it had rows to save, and the future is done
WorkerFinish(f, doc_outcome) ==
    /\ PoolWorking
    /\ task[f] = "running"
    /\ task' = [task EXCEPT ![f] = "done"]
    /\ outcome' = [outcome EXCEPT ![f] = process_single_file(f, doc_outcome)]
    /\ finish_order' = Append(finish_order, f)
    /\ summary_file' = IF WritesLedgerPath(f) /\ doc_outcome = "written"
                       THEN DocumentTable
                       ELSE summary_file
    /\ UNCHANGED <<all_files, max_workers, namesake, early, handled, results,
                   summary_writes, failed_log, pc_batch>>
    /\ UNCHANGED notBatch

\* a worker process dies: the pool is broken and every future that is not
\* done raises, the pending ones in the order of their submission
WorkerDies(f) ==
    /\ PoolWorking
    /\ task[f] = "running"
    /\ task' = [g \in all_files |-> "done"]
    /\ outcome' = [g \in all_files |->
                       IF task[g] = "done" THEN outcome[g] ELSE FutureRaised]
    /\ finish_order' = finish_order \o InSubmissionOrder(all_files \ Done)
    /\ UNCHANGED <<all_files, max_workers, namesake, early, handled, results, summary_file,
                   summary_writes, failed_log, pc_batch>>
    /\ UNCHANGED notBatch

\* line 121: as_completed is called on the submitted futures
AsCompleted ==
    /\ pc_batch = "submitted"
    /\ early' = Done
    /\ pc_batch' = "collect"
    /\ UNCHANGED <<all_files, max_workers, namesake, task, outcome, finish_order, handled,
                   results, summary_file, summary_writes, failed_log>>
    /\ UNCHANGED notBatch

\* lines 121-128: a completed future holds a result
HandleResult(f) ==
    /\ pc_batch = "collect"
    /\ f \in Yieldable
    /\ outcome[f] # FutureRaised
    /\ results' = Append(results, Entry(f, outcome[f]))
    /\ summary_file' = Written(results')
    /\ summary_writes' = Append(summary_writes, results')
    /\ handled' = MarkHandled(handled, f)
    /\ UNCHANGED <<all_files, max_workers, namesake, task, outcome, finish_order, early,
                   failed_log, pc_batch>>
    /\ UNCHANGED notBatch

\* lines 121-124, 130-138: a completed future raises
HandleException(f) ==
    /\ pc_batch = "collect"
    /\ f \in Yieldable
    /\ outcome[f] = FutureRaised
    /\ results' = Append(results, ExecutorErrorEntry(f))
    /\ handled' = MarkHandled(handled, f)
    /\ UNCHANGED <<all_files, max_workers, namesake, task, outcome, finish_order, early,
                   summary_file, summary_writes, failed_log, pc_batch>>
    /\ UNCHANGED notBatch

\* lines 145, 153-156: the "Failed files" warnings, one count and one line for
\* every entry whose status is not 'success'
NoFailures == [count |-> 0, files |-> <<>>]

IsSuccess(entry) == entry.status = "success"

success_count(entries) == Len(SelectSeq(entries, IsSuccess))

FailedFiles(entries) ==
    IF success_count(entries) < Len(entries)
    THEN [count |-> Len(entries) - success_count(entries),
          files |-> SelectSeq(entries, LAMBDA en : ~IsSuccess(en))]
    ELSE NoFailures

\* lines 141-156, once as_completed is exhausted
FinalSummary ==
    /\ pc_batch = "collect"
    /\ handled = all_files
    /\ summary_file' = Written(results)
    /\ summary_writes' = Append(summary_writes, results)
    /\ failed_log' = FailedFiles(results)
    /\ pc_batch' = "done"
    /\ UNCHANGED <<all_files, max_workers, namesake, task, outcome, finish_order, early,
                   handled, results>>
    /\ UNCHANGED notBatch

BatchNext ==
    \/ BatchNoFiles
    \/ BatchSubmit
    \/ \E f \in all_files : WorkerStart(f)
    \/ \E f \in all_files : \E doc_outcome \in DocumentOutcomes : WorkerFinish(f, doc_outcome)
    \/ \E f \in all_files : WorkerDies(f)
    \/ AsCompleted
    \/ \E f \in all_files : HandleResult(f)
    \/ \E f \in all_files : HandleException(f)
    \/ FinalSummary

\* the call batch_process(input_dir, output_dir, max_workers=w) with n files
\* matching, the k-th of them named processing_summary (none when k is 0)
BatchInit(n, w, k) ==
    /\ all_files = 1..n
    /\ max_workers = w
    /\ namesake = k
    /\ task = [f \in 1..n |-> "unsubmitted"]
    /\ outcome = [f \in 1..n |-> "none"]
    /\ finish_order = <<>>
    /\ early = {}
    /\ handled = {}
    /\ results = <<>>
    /\ summary_file = NoFile
    /\ summary_writes = <<>>
    /\ failed_log = NoFailures
    /\ pc_batch = "start"

\* no call in progress
BatchIdle ==
    /\ all_files = {}
    /\ max_workers = 1
    /\ namesake = NoNamesake
    /\ task = <<>>
    /\ outcome = <<>>
    /\ finish_order = <<>>
    /\ early = {}
    /\ handled = {}
    /\ results = <<>>
    /\ summary_file = NoFile
    /\ summary_writes = <<>>
    /\ failed_log = NoFailures
    /\ pc_batch = "idle"

-----------------------------------------------------------------------------
(* postprocess.py: save_to_csv and clean_compensation *)

\* "p.m."
PmMark == <<"p", ".", "m", ".">>

RECURSIVE RemoveAll(_, _)
\* s.replace(pat, "")
RemoveAll(s, pat) ==
    IF Len(s) < Len(pat) THEN s
    ELSE IF SubSeq(s, 1, Len(pat)) = pat
         THEN RemoveAll(SubSeq(s, Len(pat) + 1, Len(s)), pat)
         ELSE <<s[1]>> \o RemoveAll(Tail(s), pat)

\* [\d,\.]
IsAmountChar(c) == IsDigit(c) \/ c = "," \/ c = "."

RECURSIVE AmountRun(_, _)
\* the number of characters of [\d,\.] from position i of s on
AmountRun(s, i) ==
    IF i <= Len(s) /\ IsAmountChar(s[i]) THEN 1 + AmountRun(s, i + 1) ELSE 0

\* the positions where \$?[\d,\.]+ matches
AmountStarts(s) ==
    {i \in 1..Len(s) :
        \/ IsAmountChar(s[i])
        \/ s[i] = "$" /\ i < Len(s) /\ IsAmountChar(s[i + 1])}

\* re.search(r'\$?[\d,\.]+', s).group(0), for s with a match
AmountMatch(s) ==
    LET i == CHOOSE i \in AmountStarts(s) : \A j \in AmountStarts(s) : i <= j
    IN  IF s[i] = "$"
        THEN SubSeq(s, i, i + AmountRun(s, i + 1))
        ELSE SubSeq(s, i, i + AmountRun(s, i) - 1)

\* lines 37-73, for a string
clean_compensation(value) ==
    LET v == Strip(value)
        is_pm == Contains(Lower(v), PmMark)
        w == IF is_pm THEN Strip(RemoveAll(Lower(v), PmMark)) ELSE v
    IN  IF AmountStarts(w) = {} THEN w
        ELSE LET m == AmountMatch(w)
                 d == IF m[1] = "$" THEN m ELSE <<"$">> \o m
             IN  IF is_pm THEN d \o <<" ">> \o PmMark ELSE d

\* lines 25-31 for one row: the row dictionaries of detect_table_structure
\* have both columns; a State of None is left as it is
CleanRow(row) ==
    [c \in DOMAIN row |->
        IF c = "Compensation per annum" THEN clean_compensation(row[c])
        ELSE IF c = "State" /\ row[c] # None THEN Strip(row[c])
        ELSE row[c]]

\* the output file: absent, or holding the rows last written
NoOutput == [exists |-> FALSE, rows |-> <<>>]

\* lines 10-35: nothing is written for an empty list
save_to_csv(table, out) ==
    IF table = <<>> THEN out
    ELSE [exists |-> TRUE, rows |-> [i \in 1..Len(table) |-> CleanRow(table[i])]]

-----------------------------------------------------------------------------
(* ocr_main.py: process_document, lines 58-84 *)

CarryLastValues(prev) == prev

\* table_detector.py line 64: the cache a call of detect_table_structure
\* starts with, whatever an earlier call left
StartLastValues(prev) == [c \in ColumnNameSet |-> <<>>]

\* lines 60-73: the next page is handed to detect_table_structure, which
\* begins with lines 19-64 of table_detector.py
DocStartPage ==
    /\ pc_doc = "loop"
    /\ page_num < pages_to_process
    /\ lines' = CollectLines(doc[page_num + 1])
    /\ line_idx' = 0
    /\ col_idx' = NoColumn
    /\ table_data' = <<>>
    /\ current_state' = None
    /\ last_values' = StartLastValues(last_values)
    /\ processed_data' = <<>>
    /\ pc_detect' = "scan"
    /\ pc_doc' = "detect"
    /\ UNCHANGED <<doc, pages_to_process, page_num, all_table_data, page_tables, output_csv>>
    /\ UNCHANGED notDoc

\* lines 73-79: detect_table_structure has returned
DocCollectPage ==
    /\ pc_doc = "detect"
    /\ pc_detect = "done"
    /\ all_table_data' = all_table_data \o processed_data
    /\ page_tables' = Append(page_tables, processed_data)
    /\ page_num' = page_num + 1
    /\ pc_doc' = "loop"
    /\ UNCHANGED <<doc, pages_to_process, output_csv>>
    /\ UNCHANGED detectVars
    /\ UNCHANGED notDoc

\* lines 81-84
DocSave ==
    /\ pc_doc = "loop"
    /\ page_num = pages_to_process
    /\ output_csv' = save_to_csv(all_table_data, output_csv)
    /\ pc_doc' = "done"
    /\ UNCHANGED <<doc, pages_to_process, page_num, all_table_data, page_tables>>
    /\ UNCHANGED detectVars
    /\ UNCHANGED notDoc

DocNext ==
    \/ DocStartPage
    \/ DetectNext
    \/ DocCollectPage
    \/ DocSave

\* lines 42-50: min(max_pages, total_pages)
PagesToProcess(max_pages, total) ==
    IF max_pages < total THEN max_pages ELSE total

\* the call process_document(input_path, output_csv, max_pages) on a
\* document of pages d, n of them to be processed
DocInit(d, n) ==
    /\ doc = d
    /\ pages_to_process = n
    /\ page_num = 0
    /\ all_table_data = <<>>
    /\ page_tables = <<>>
    /\ output_csv = NoOutput
    /\ pc_doc = "loop"

\* no call in progress
DocIdle ==
    /\ doc = <<>>
    /\ pages_to_process = 0
    /\ page_num = 0
    /\ all_table_data = <<>>
    /\ page_tables = <<>>
    /\ output_csv = NoOutput
    /\ pc_doc = "idle"

-----------------------------------------------------------------------------
(* TableExtractor.process_pdf_document, lines 241-326 *)

cName == <<"N","a","m","e">>

cWhereBorn == <<"W","h","e","r","e"," ","b","o","r","n">>

cWhenceAppointed == <<"W","h","e","n","c","e"," ","a","p","p","o","i","n","t","e","d">>

cPostOffice == <<"P","o","s","t","-","o","f","f","i","c","e">>

cCompensation ==
    <<"C","o","m","p","e","n","s","a","t","i","o","n"," ","p","e","r"," ","a","n","n","u","m">>

cState == <<"S","t","a","t","e">>

cPostmaster == <<"P","o","s","t","m","a","s","t","e","r">>

cExtractionConfidence ==
    <<"e","x","t","r","a","c","t","i","o","n","_","c","o","n","f","i","d","e","n","c","e">>

\* lines 292-294: the table without rows that stands for a failed page; its
\* extraction_confidence is one of the named columns
empty_df ==
    Frame(<<cName, cWhereBorn, cWhenceAppointed, cPostOffice, cCompensation, cState,
            cPostmaster, cExtractionConfidence>>, <<>>, <<>>, <<>>)

PlaceholderEntry == [df |-> empty_df, confidence |-> ConfZero]

PlaceholderWithoutSchema == [df |-> EmptyFrame, confidence |-> ConfZero]

\* line 295: what is recorded for a page whose extraction raised
FailedPageEntry == PlaceholderEntry

\* line 319: extraction_confidence > 0.7
HighConfidence == <<7, 10>>

\* 'extraction_confidence' in df.columns
HasConfidenceColumn(d) ==
    \/ d.extraction_confidence # <<>>
    \/ \E i \in DOMAIN d.columns : d.columns[i] = cExtractionConfidence

\* set(df.columns) - {'extraction_confidence'}
BaseColumns(d) == {d.columns[i] : i \in DOMAIN d.columns} \ {cExtractionConfidence}

\* the rows of a table, each with its cells by column name and its
\* extraction_confidence, NaN where the table has no such column
RowsOf(d) ==
    [k \in 1..Len(d.rows) |->
        [cells |-> [i \in 1..Len(d.columns) |-> <<d.columns[i], d.rows[k][i]>>],
         extraction_confidence |->
             IF d.extraction_confidence # <<>> THEN d.extraction_confidence[k] ELSE NaN]]

RECURSIVE ConcatRows(_)
\* pd.concat(valid_dfs, ignore_index=True)
ConcatRows(ds) == IF ds = <<>> THEN <<>> ELSE RowsOf(ds[1]) \o ConcatRows(Tail(ds))

\* the output files of one page
PageFile(p, d) == [name |-> "page", page |-> p, content |-> d]

MetaFile(p, d, c) ==
    [name |-> "page_meta", page |-> p,
     content |-> [page |-> p, confidence |-> c, rows |-> Len(d.rows),
                  columns |-> Len(d.columns) + IF d.extraction_confidence # <<>> THEN 1 ELSE 0]]

ErrorFile(p) == [name |-> "page_error", page |-> p, content |-> empty_df]

\* lines 302-324: the combined files, written when some page gave rows and
\* all such pages have the same columns
CombinedFiles(res) ==
    LET valid_results == SelectSeq(res, LAMBDA r : ~IsEmptyFrame(r.df))
        dfs == [i \in 1..Len(valid_results) |-> valid_results[i].df]
        combined == ConcatRows(dfs)
    IN  IF valid_results = <<>> THEN {}
        ELSE IF \E i \in 1..Len(dfs) : BaseColumns(dfs[i]) # BaseColumns(dfs[1]) THEN {}
        ELSE {[name |-> "combined", page |-> 0, content |-> combined]}
                 \cup IF \E i \in 1..Len(dfs) : HasConfidenceColumn(dfs[i])
                      THEN {[name |-> "combined_high_confidence", page |-> 0,
                             content |-> SelectSeq(combined, LAMBDA r :
                                 /\ r.extraction_confidence # NaN
                                 /\ ConfGT(r.extraction_confidence, HighConfidence))]}
                      ELSE {}

\* lines 269-272: the next page is handed to extract_table_from_pdf_page,
\* which begins with lines 173-176 and the default retry_count
PdfStartPage ==
    /\ pc_pdf = "loop"
    /\ pdf_page <= end_page
    /\ retry_count' = DefaultRetryCount
    /\ attempt' = 0
    /\ best_df' = EmptyFrame
    /\ best_confidence' = ConfZero
    /\ outcomes' = <<>>
    /\ events' = <<>>
    /\ result' = NoResult
    /\ pc_extract' = "loop"
    /\ pc_pdf' = "extract"
    /\ UNCHANGED <<total_pages, start_page, end_page, pdf_page, pdf_results, pdf_log, pdf_files>>
    /\ UNCHANGED notPdf

\* lines 272-287: the extraction returned
PdfPageReturned ==
    /\ pc_pdf = "extract"
    /\ pc_extract = "returned"
    /\ pdf_results' = Append(pdf_results, result)
    /\ pdf_log' = Append(pdf_log, [page |-> pdf_page, raised |-> FALSE])
    /\ pdf_files' = pdf_files \cup {PageFile(pdf_page, result.df),
                                   MetaFile(pdf_page, result.df, result.confidence)}
    /\ pdf_page' = pdf_page + 1
    /\ pc_pdf' = "loop"
    /\ UNCHANGED <<total_pages, start_page, end_page>>
    /\ UNCHANGED extractVars
    /\ UNCHANGED notPdf

\* lines 289-300: the extraction raised
PdfPageRaised ==
    /\ pc_pdf = "extract"
    /\ pc_extract \in {"raised_api_error", "raised_no_data"}
    /\ pdf_results' = Append(pdf_results, FailedPageEntry)
    /\ pdf_log' = Append(pdf_log, [page |-> pdf_page, raised |-> TRUE])
    /\ pdf_files' = pdf_files \cup {ErrorFile(pdf_page)}
    /\ pdf_page' = pdf_page + 1
    /\ pc_pdf' = "loop"
    /\ UNCHANGED <<total_pages, start_page, end_page>>
    /\ UNCHANGED extractVars
    /\ UNCHANGED notPdf

\* lines 302-326
PdfCombine ==
    /\ pc_pdf = "loop"
    /\ pdf_page > end_page
    /\ pdf_files' = pdf_files \cup CombinedFiles(pdf_results)
    /\ pc_pdf' = "done"
    /\ UNCHANGED <<total_pages, start_page, end_page, pdf_page, pdf_results, pdf_log>>
    /\ UNCHANGED extractVars
    /\ UNCHANGED notPdf

\* lines 265-266: end_page None (written 0 - 1 here) or beyond the last page
\* means the last page
EffectiveEndPage(e, total) == IF e = 0 - 1 \/ e > total THEN total ELSE e

\* the call process_pdf_document(pdf_path, output_dir, s, e) on a PDF of
\* total pages, lines 255-268
PdfInit(total, s, e) ==
    /\ total_pages = total
    /\ start_page = s
    /\ end_page = EffectiveEndPage(e, total)
    /\ pdf_page = s
    /\ pdf_results = <<>>
    /\ pdf_log = <<>>
    /\ pdf_files = {}
    /\ pc_pdf = "loop"

\* no call in progress
PdfIdle ==
    /\ total_pages = 0
    /\ start_page = 1
    /\ end_page = 0
    /\ pdf_page = 1
    /\ pdf_results = <<>>
    /\ pdf_log = <<>>
    /\ pdf_files = {}
    /\ pc_pdf = "idle"

-----------------------------------------------------------------------------
(* validate_csv_file (validation.py) *)

\* the expected columns without State
ExpectedWithoutState ==
    {"Name", "Where born", "Whence appointed", "Post-office", "Compensation per annum"}

\* expected_columns
expected_columns ==
    {"Name", "Where born", "Whence appointed", "Post-office",
     "Compensation per annum", "State"}

\* VALIDATION_CONFIG["max_empty_percentage"] (config.py); validate_csv_file never reads it
max_empty_percentage == 5

\* some of the strings pd.read_csv reads as a missing value
NAStrings ==
    {<<>>, <<"N","A">>, <<"n","a","n">>, <<"N","a","N">>, <<"n","u","l","l">>,
     <<"N","/","A">>}

IsNA(raw) == raw \in NAStrings

\* the strings pd.read_csv reads as booleans
TrueStrings == {<<"T","r","u","e">>, <<"T","R","U","E">>, <<"t","r","u","e">>}

FalseStrings == {<<"F","a","l","s","e">>, <<"F","A","L","S","E">>, <<"f","a","l","s","e">>}

IsBool(raw) == raw \in TrueStrings \cup FalseStrings

\* an integer field (the only numbers the model's files hold)
IsNumber(raw) == raw # <<>> /\ \A i \in 1..Len(raw) : IsDigit(raw[i])

\* the file at csv_path
CsvFile(cols, rows) == [readable |-> TRUE, columns |-> cols, rows |-> rows]

Unreadable == [readable |-> FALSE, columns |-> <<>>, rows |-> <<>>]

\* df[col]: the fields of column j, top to bottom
ColumnCells(rows, j) == [i \in 1..Len(rows) |-> rows[i][j]]

Present(cells) == {i \in 1..Len(cells) : ~IsNA(cells[i])}

\* a column of True/False with a missing value: pd.read_csv keeps the booleans in an object column
HoldsBooleans(cells) ==
    /\ Present(cells) # {}
    /\ Present(cells) # 1..Len(cells)
    /\ \A i \in Present(cells) : IsBool(cells[i])

\* the dtype pd.read_csv infers for a column
DType(cells) ==
    IF Len(cells) = 0 THEN "object"
    ELSE IF Present(cells) = {} THEN "float64"
    ELSE IF \A i \in Present(cells) : IsNumber(cells[i])
         THEN IF Present(cells) = 1..Len(cells) THEN "int64" ELSE "float64"
    ELSE IF \A i \in Present(cells) : IsBool(cells[i])
         THEN IF Present(cells) = 1..Len(cells) THEN "bool" ELSE "object"
    ELSE "object"

NoFrame == [columns |-> <<>>, dtypes |-> <<>>, holds_booleans |-> <<>>, rows |-> <<>>]

\* pd.read_csv(csv_path)
ReadCsv(f) ==
    [columns |-> f.columns,
     dtypes |-> [j \in 1..Len(f.columns) |-> DType(ColumnCells(f.rows, j))],
     holds_booleans |-> [j \in 1..Len(f.columns) |-> HoldsBooleans(ColumnCells(f.rows, j))],
     rows |-> f.rows]

ColumnSet(frame) == {frame.columns[j] : j \in 1..Len(frame.columns)}

ColumnIndex(frame, name) == CHOOSE j \in 1..Len(frame.columns) : frame.columns[j] = name

\* the entries of result["issues"] and result["warnings"]
Finding(kind, column, count, names, examples) ==
    [kind |-> kind, column |-> column, count |-> count, columns |-> names,
     examples |-> examples]

MissingColumnsIssue(names) == Finding("missing_columns", "", 0, names, <<>>)

DittoIssue(column, count) == Finding("unresolved_do", column, count, {}, <<>>)

ErrorIssue == Finding("error", "", 0, {}, <<>>)

EmptyWarning(column, count) == Finding("empty_values", column, count, {}, <<>>)

SuspiciousWarning(count) == Finding("suspicious_compensation", "", count, {}, <<>>)

ExamplesWarning(examples) == Finding("suspicious_examples", "", 0, {}, examples)

MismatchWarning(count) == Finding("state_mismatch", "", count, {}, <<>>)

\* df[col].isna().sum()
empty_count(frame, j) == Cardinality({i \in 1..Len(frame.rows) : IsNA(frame.rows[i][j])})

\* the warning threshold of the empty-value check: empty_count > 0
EmptyLimit(frame) == 0

RECURSIVE EmptyWarnings(_, _)
EmptyWarnings(frame, j) ==
    IF j > Len(frame.columns) THEN <<>>
    ELSE (IF empty_count(frame, j) > EmptyLimit(frame)
          THEN <<EmptyWarning(frame.columns[j], empty_count(frame, j))>>
          ELSE <<>>) \o EmptyWarnings(frame, j + 1)

\* df[col].dtype == 'object'
IsStringColumn(frame, j) == frame.dtypes[j] = "object"

\* the .str accessor refuses an object column that holds booleans
StrAccessorRaises(frame, j) == frame.holds_booleans[j]

\* the ditto test without the lower() and strip()
do_count_exact(frame, j) ==
    Cardinality({i \in 1..Len(frame.rows) : frame.rows[i][j] = Ditto})

\* df[df[col].str.lower().str.strip() == "do"].shape[0]
do_count(frame, j) ==
    Cardinality({i \in 1..Len(frame.rows) :
                    /\ ~IsNA(frame.rows[i][j])
                    /\ Strip(Lower(frame.rows[i][j])) = Ditto})

TrueText == <<"T","r","u","e">>

FalseText == <<"F","a","l","s","e">>

NanText == <<"n","a","n">>

\* str() of a value of the table: text as read, booleans as True/False, floats with ".0"
PyStr(raw, dtype, holds, as_float) ==
    IF IsNA(raw) THEN NanText
    ELSE IF dtype = "bool" \/ holds THEN (IF raw \in TrueStrings THEN TrueText ELSE FalseText)
    ELSE IF dtype = "float64" \/ (dtype = "int64" /\ as_float) THEN raw \o <<".", "0">>
    ELSE raw

IsWordChar(c) == IsDigit(c) \/ c = "_" \/ LowerChar(c) # c \/ UpperChar(c) # c

\* \bp\.m\.
HasPm(s) ==
    \E i \in 1..Len(s) :
        /\ i + 3 <= Len(s)
        /\ SubSeq(s, i, i + 3) = PmMark
        /\ (i = 1 \/ ~IsWordChar(s[i - 1]))

\* comp_col.str.contains(r'^\$|\bp\.m\.|^nan$')
CompensationLooksRight(s) ==
    \/ (s # <<>> /\ Head(s) = "$")
    \/ HasPm(s)
    \/ s = NanText

\* invalid_comp: the rows whose compensation, as a string, fails the pattern
invalid_comp(frame) ==
    LET j == ColumnIndex(frame, "Compensation per annum")
    IN  {i \in 1..Len(frame.rows) :
            ~CompensationLooksRight(
                PyStr(frame.rows[i][j], frame.dtypes[j], frame.holds_booleans[j], FALSE))}

RECURSIVE Examples(_, _, _, _)
Examples(frame, rowset, i, n) ==
    IF i > Len(frame.rows) \/ n = 0 THEN <<>>
    ELSE IF i \in rowset
         THEN <<frame.rows[i][ColumnIndex(frame, "Compensation per annum")]>>
              \o Examples(frame, rowset, i + 1, n - 1)
         ELSE Examples(frame, rowset, i + 1, n)

\* df.iterrows() makes every number a float when all columns are numeric and one is float64
RowsAsFloat(frame) ==
    /\ \A j \in 1..Len(frame.columns) : frame.dtypes[j] \in {"int64", "float64"}
    /\ \E j \in 1..Len(frame.columns) : frame.dtypes[j] = "float64"

\* str(row.get(name, "")) if not pd.isna(...) else ""
RowText(frame, i, name) ==
    LET j == ColumnIndex(frame, name)
    IN  IF IsNA(frame.rows[i][j]) THEN <<>>
        ELSE PyStr(frame.rows[i][j], frame.dtypes[j], frame.holds_booleans[j],
                   RowsAsFloat(frame))

\* born != "do" and state and born and state.lower() != born.lower()
IsMismatch(state, born) ==
    /\ born # Ditto
    /\ state # <<>>
    /\ born # <<>>
    /\ Lower(state) # Lower(born)

state_mismatch(frame) ==
    Cardinality({i \in 1..Len(frame.rows) :
                    IsMismatch(RowText(frame, i, "State"), RowText(frame, i, "Where born"))})

MarkInvalidNever(v) == v

\* result["valid"] = False, lines 52, 66 and 100
MarkInvalid(v) == FALSE

\* a handler that lets the error of pd.read_csv through
CaughtUnlessRead(raised_in) == raised_in # "read"

\* except Exception: whatever the try block raises is caught, the error of
\* pd.read_csv ("read") as well as the one of the .str accessor ("str")
ExceptionCaught(raised_in) == TRUE

-----------------------------------------------------------------------------
(* validate_csv_file: steps *)

\* pd.read_csv raises: the except branch
ValidateReadFails ==
    /\ pc_validate = "read"
    /\ ~csv_file.readable
    /\ IF ExceptionCaught("read")
       THEN /\ valid' = MarkInvalid(valid)
            /\ issues' = Append(issues, ErrorIssue)
            /\ pc_validate' = "returned"
       ELSE /\ pc_validate' = "raised"
            /\ UNCHANGED <<valid, issues>>
    /\ UNCHANGED <<csv_file, vdf, vcol, warnings, row_count>>
    /\ UNCHANGED notValidate

ValidateRead ==
    /\ pc_validate = "read"
    /\ csv_file.readable
    /\ vdf' = ReadCsv(csv_file)
    /\ row_count' = Len(csv_file.rows)
    /\ pc_validate' = "columns"
    /\ UNCHANGED <<csv_file, vcol, valid, issues, warnings>>
    /\ UNCHANGED notValidate

\* missing_columns = expected_columns - set(df.columns)
ValidateColumns ==
    /\ pc_validate = "columns"
    /\ LET missing_columns == expected_columns \ ColumnSet(vdf)
       IN  IF missing_columns # {}
           THEN /\ valid' = MarkInvalid(valid)
                /\ issues' = Append(issues, MissingColumnsIssue(missing_columns))
           ELSE UNCHANGED <<valid, issues>>
    /\ pc_validate' = "empty"
    /\ UNCHANGED <<csv_file, vdf, vcol, warnings, row_count>>
    /\ UNCHANGED notValidate

\* the empty-value loop
ValidateEmpty ==
    /\ pc_validate = "empty"
    /\ warnings' = warnings \o EmptyWarnings(vdf, 1)
    /\ vcol' = 0
    /\ pc_validate' = "ditto"
    /\ UNCHANGED <<csv_file, vdf, valid, issues, row_count>>
    /\ UNCHANGED notValidate

\* one turn of the "do" loop
ValidateDittoColumn ==
    /\ pc_validate = "ditto"
    /\ vcol < Len(vdf.columns)
    /\ ~(IsStringColumn(vdf, vcol + 1) /\ StrAccessorRaises(vdf, vcol + 1))
    /\ IF IsStringColumn(vdf, vcol + 1) /\ do_count(vdf, vcol + 1) > 0
       THEN /\ valid' = MarkInvalid(valid)
            /\ issues' = Append(issues,
                                DittoIssue(vdf.columns[vcol + 1], do_count(vdf, vcol + 1)))
       ELSE UNCHANGED <<valid, issues>>
    /\ vcol' = vcol + 1
    /\ UNCHANGED <<csv_file, vdf, warnings, row_count, pc_validate>>
    /\ UNCHANGED notValidate

\* the .str accessor raises inside the "do" loop: the except branch
ValidateDittoRaises ==
    /\ pc_validate = "ditto"
    /\ vcol < Len(vdf.columns)
    /\ IsStringColumn(vdf, vcol + 1)
    /\ StrAccessorRaises(vdf, vcol + 1)
    /\ IF ExceptionCaught("str")
       THEN /\ valid' = MarkInvalid(valid)
            /\ issues' = Append(issues, ErrorIssue)
            /\ pc_validate' = "returned"
       ELSE /\ pc_validate' = "raised"
            /\ UNCHANGED <<valid, issues>>
    /\ UNCHANGED <<csv_file, vdf, vcol, warnings, row_count>>
    /\ UNCHANGED notValidate

\* the compensation check, after the "do" loop
ValidateCompensation ==
    /\ pc_validate = "ditto"
    /\ vcol = Len(vdf.columns)
    /\ IF "Compensation per annum" \in ColumnSet(vdf) /\ invalid_comp(vdf) # {}
       THEN warnings' = warnings \o
                <<SuspiciousWarning(Cardinality(invalid_comp(vdf))),
                  ExamplesWarning(Examples(vdf, invalid_comp(vdf), 1, 3))>>
       ELSE UNCHANGED warnings
    /\ pc_validate' = "state"
    /\ UNCHANGED <<csv_file, vdf, vcol, valid, issues, row_count>>
    /\ UNCHANGED notValidate

\* the state consistency check, then return result
ValidateState ==
    /\ pc_validate = "state"
    /\ IF /\ "State" \in ColumnSet(vdf)
          /\ "Where born" \in ColumnSet(vdf)
          /\ state_mismatch(vdf) > 0
       THEN warnings' = Append(warnings, MismatchWarning(state_mismatch(vdf)))
       ELSE UNCHANGED warnings
    /\ pc_validate' = "returned"
    /\ UNCHANGED <<csv_file, vdf, vcol, valid, issues, row_count>>
    /\ UNCHANGED notValidate

ValidateNext ==
    \/ ValidateReadFails
    \/ ValidateRead
    \/ ValidateColumns
    \/ ValidateEmpty
    \/ ValidateDittoColumn
    \/ ValidateDittoRaises
    \/ ValidateCompensation
    \/ ValidateState

\* validate_csv_file(csv_path) is called
ValidateInit(f) ==
    /\ csv_file = f
    /\ vdf = NoFrame
    /\ vcol = 0
    /\ valid = TRUE
    /\ issues = <<>>
    /\ warnings = <<>>
    /\ row_count = 0
    /\ pc_validate = "read"

ValidateIdle ==
    /\ csv_file = Unreadable
    /\ vdf = NoFrame
    /\ vcol = 0
    /\ valid = TRUE
    /\ issues = <<>>
    /\ warnings = <<>>
    /\ row_count = 0
    /\ pc_validate = "idle"

-----------------------------------------------------------------------------
(* The pages explored *)

\* longest enumerated page body (lines after the five leading lines)
MaxBody == 3

\* how far beyond [0, 1] the position sweep goes, in hundredths
SweepPad == 1

Frag(t, xx, yy) == [text |-> t, x |-> xx, y |-> yy]

tAla == <<"A","l","a",".">>

tOhioDot == <<"O","h","i","o",".">>

tSmith == <<"S","m","i","t","h">>

tJones == <<"J","o","n","e","s">>

tOhio == <<"O","h","i","o">>

tDo == <<"D","o">>

tNYC == <<"N","."," ","Y","."," ","C",".">>

tTitle == <<"T","i","t","l","e">>

tClerks == <<"C","l","e","r","k","s"," ","i","n"," ","P","o","s","t","-","O","f","f","i","c","e","s">>

tAlabamaDot == <<"A","l","a","b","a","m","a",".">>

tAlabama == <<"A","l","a","b","a","m","a">>

tSmithJohn == <<"S","m","i","t","h",","," ","J","o","h","n">>

tColumbus == <<"C","o","l","u","m","b","u","s">>

\* a ditto mark printed with its period
tDoDot == <<"d","o",".">>

\* the (text, x) of an enumerated body line
BodyFrags ==
    { <<tAla, 5>>, <<tOhioDot, 2>>, <<tSmith, 2>>, <<Ditto, 2>>, <<tOhio, 40>>,
      <<tDo, 40>>, <<tNYC, 5>>, <<tAla, 36>>, <<tSmith, 100>>, <<tClerks, 30>> }

Leading == [i \in 1..HeaderLineCount |-> Frag(tTitle, 40, i)]

\* a page in reading order that is already in y order
PageOf(body) ==
    Leading \o [i \in 1..Len(body) |-> Frag(body[i][1], body[i][2], 10 + i)]

EnumeratedPages ==
    { PageOf(b) : b \in UNION { [1..k -> BodyFrags] : k \in 0..MaxBody } }

\* one line at every position from just left of 0 to just right of 1
SweepPages ==
    { PageOf(<<<<tSmith, 2>>, <<tOhio, xx>>>>) : xx \in (0 - SweepPad)..(100 + SweepPad) }

ScenarioLines(y0) ==
    << Frag(tAlabamaDot, 5, y0 + 1), Frag(tSmithJohn, 2, y0 + 2),
       Frag(tOhio, 40, y0 + 3), Frag(Ditto, 59, y0 + 4) >>

\* the four lines alone
ScenarioBare == ScenarioLines(0)

\* the four lines below the five leading lines
ScenarioBelowHeader == Leading \o ScenarioLines(10)

\* the four lines below an earlier row whose Post-office is Columbus
ScenarioBelowRow ==
    Leading \o <<Frag(tJones, 2, 8), Frag(tColumbus, 59, 9)>> \o ScenarioLines(10)

\* pages whose reading order is not the y order, with a tie, an empty line,
\* longer ditto chains, two lines for the same cell of a second row, a
\* heading that ends with two periods, and a ditto mark with its period at
\* the left of the page
OtherPages ==
    { <<>>,
      <<Frag(tSmith, 2, 12), Frag(tAla, 5, 11)>> \o Leading,
      Leading \o <<Frag(tSmith, 2, 11), Frag(tOhio, 40, 11), Frag(<<" ">>, 2, 11),
                    Frag(tJones, 2, 12), Frag(tDo, 40, 12)>>,
      Leading \o <<Frag(tSmith, 2, 11), Frag(tOhio, 40, 12), Frag(tJones, 2, 13),
                    Frag(tDo, 40, 14), Frag(Ditto, 2, 15), Frag(Ditto, 40, 16)>>,
      Leading \o <<Frag(tAla, 5, 11), Frag(tSmith, 2, 12), Frag(tOhioDot, 2, 13),
                    Frag(tOhio, 40, 14), Frag(tJones, 2, 15)>>,
      Leading \o <<Frag(tSmith, 2, 11), Frag(tOhio, 40, 12), Frag(tJones, 2, 13),
                    Frag(tOhio, 40, 14), Frag(tDo, 40, 15)>>,
      Leading \o <<Frag(tAla \o <<".">>, 5, 11), Frag(tSmith, 2, 12)>>,
      Leading \o <<Frag(tSmith, 2, 11), Frag(tOhio, 40, 12), Frag(tDoDot, 2, 13),
                    Frag(tDo, 40, 14)>> }

Pages ==
    EnumeratedPages \cup SweepPages \cup OtherPages
        \cup {ScenarioBare, ScenarioBelowHeader, ScenarioBelowRow}


-----------------------------------------------------------------------------
(* The texts explored *)

\* longest enumerated text
MaxText == 7

TextAlphabet == {",", "\n", "1", "a"}

EnumeratedTexts == UNION { [1..n -> TextAlphabet] : n \in 0..MaxText }

\* "A,B,C\n1,2,3,4,5"
tScenarioCsv == <<"A",",","B",",","C","\n","1",",","2",",","3",",","4",",","5">>

\* "A,B,C\n1,2,3\n1,2,3,4,5"
tScenarioRagged ==
    <<"A",",","B",",","C","\n","1",",","2",",","3","\n","1",",","2",",","3",",","4",",","5">>

\* "A,B,C\n1\n\n1,2,3,4,5\n"
tScenarioShort ==
    <<"A",",","B",",","C","\n","1","\n","\n","1",",","2",",","3",",","4",",","5","\n">>

\* "Name,Pay\nSmith,$100 00\nJones,p.m. 900 00"
tMoney ==
    <<"N","a","m","e",",","P","a","y","\n","S","m","i","t","h",",","$","1","0","0"," ","0","0","\n",
      "J","o","n","e","s",",","p",".","m","."," ","9","0","0"," ","0","0">>

\* "a,b,c,d,e\n1,2,3\n1,2,3,4,5,6": manual rows of 3/5 and 1.0
tMeanOfTwo ==
    <<"a",",","b",",","c",",","d",",","e","\n","1",",","2",",","3","\n",
      "1",",","2",",","3",",","4",",","5",",","6">>

\* "a,$1\n11,a": an amount at the end of a line, two digits at the start of the next
tMoneyLines == <<"a",",","$","1","\n","1","1",",","a">>

OtherTexts == {tScenarioCsv, tScenarioRagged, tScenarioShort, tMoney, tMeanOfTwo, tMoneyLines}

Texts == EnumeratedTexts \cup OtherTexts

\* "a,a\n1,1": the strict parse succeeds with a row
rGood == <<"a", ",", "a", "\n", "1", ",", "1">>

\* "a,a": the strict parse succeeds with no row
rHeaderOnly == <<"a", ",", "a">>

\* "1\na\n,": the relaxed parse succeeds
rRelaxed == <<"1", "\n", "a", "\n", ",">>

\* ",\n,\n\n,,": the manual tier, 5/6
rManualHigh == <<",", "\n", ",", "\n", "\n", ",", ",">>

\* ",\na\n,,,": the manual tier, 3/4
rManual == <<",", "\n", "a", "\n", ",", ",", ",">>

\* ",,,\na\na\n,,,,": the manual tier, 1/2
rManualHalf == <<",", ",", ",", "\n", "a", "\n", "a", "\n", ",", ",", ",", ",">>

\* ",,,\na\na\na\n,,,,": the manual tier, 7/16
rManualLow ==
    <<",", ",", ",", "\n", "a", "\n", "a", "\n", "a", "\n", ",", ",", ",", ",">>

\* the answers of the service
Responses ==
    {<<>>, rGood, rHeaderOnly, rRelaxed, rManualHigh, rManual, rManualHalf, rManualLow}

\* most attempts allowed
MaxRetry == 3

\* most files found
MaxFiles == 3

\* largest process pool
MaxWorkers == 2

-----------------------------------------------------------------------------
(* The documents explored *)

\* most pages in a document
MaxPages == 2

t900 == <<"p", ".", "m", ".", " ", "9", "0", "0", " ", "0", "0">>

\* heading "Ala.", then the row Smith / Ohio / p.m. 900 00
pageAla == PageOf(<<<<tAla, 5>>, <<tSmith, 2>>, <<tOhio, 40>>, <<t900, 80>>>>)

\* no heading: the row Jones with ditto marks under every other column
pageDittos == PageOf(<<<<tJones, 2>>, <<tDo, 40>>, <<Ditto, 50>>, <<Ditto, 80>>>>)

\* heading "Ohio.", then the row Jones / Ala
pageOhio == PageOf(<<<<tOhioDot, 2>>, <<tJones, 2>>, <<tAla, 36>>>>)

\* too few lines for any to pass the leading five
pageShort == <<Frag(tSmith, 2, 1), Frag(tOhio, 40, 2)>>

\* a cell before any row, a line right of every column, then a row
pageStray == PageOf(<<<<tOhio, 40>>, <<tSmith, 100>>, <<tSmith, 2>>, <<Ditto, 40>>>>)

DocPages == {pageAla, pageDittos, pageOhio, pageShort, pageStray, <<>>}

Documents == UNION { [1..n -> DocPages] : n \in 0..MaxPages }

\* most pages in a PDF
MaxPdfPages == 2

-----------------------------------------------------------------------------
(* The CSV files explored *)

\* most rows in an enumerated file
MaxRows == 2

\* rows of the long file: one empty value among them is exactly max_empty_percentage
LongRows == 20

FullColumns ==
    <<"Name", "Where born", "Whence appointed", "Post-office",
      "Compensation per annum", "State">>

WithPostmaster == Append(FullColumns, "Postmaster")

tDoPadded == <<" ", "D", "o", " ">>

tOhioLower == <<"o", "h", "i", "o">>

tFive == <<"5">>

tDollarFive == <<"$", "5">>

tTrue == <<"T", "r", "u", "e">>

\* "p.m." with a word character before it
tXpm == <<"x", "p", ".", "m", ".">>

\* a row no check reports
PlainRow ==
    [c \in {"Name", "Where born", "Whence appointed", "Post-office",
            "Compensation per annum", "State", "Postmaster"} |->
        CASE c = "Name" -> tSmith
          [] c = "Where born" -> tOhio
          [] c = "Whence appointed" -> tOhio
          [] c = "Post-office" -> tColumbus
          [] c = "Compensation per annum" -> tDollarFive
          [] c = "State" -> tOhio
          [] OTHER -> tFive]

RowFor(cols, r) == [j \in 1..Len(cols) |-> r[cols[j]]]

BornStateValues == {<<>>, Ditto, tDoPadded, tOhio, tOhioLower, tFive, tTrue}

CompensationValues == {<<>>, tDollarFive, tFive, t900, tXpm, Ditto, tTrue}

OtherValues == {<<>>, tSmith, tDo, tFive, tTrue}

\* rows that differ from PlainRow in the two named columns
RowsVarying(a, b, values) ==
    {[PlainRow EXCEPT ![a] = v[1], ![b] = v[2]] : v \in values \X values}

RowSeqs(rowset) ==
    UNION {[1..n -> rowset] : n \in 1..MaxRows}

FilesVarying(cols, a, b, values) ==
    {CsvFile(cols, [i \in DOMAIN rs |-> RowFor(cols, rs[i])]) :
        rs \in RowSeqs(RowsVarying(a, b, values))}

\* the header in every selection of the expected columns, with no row or one plain row
RECURSIVE SubSeqs(_)
SubSeqs(s) ==
    IF s = <<>> THEN {<<>>}
    ELSE LET rest == SubSeqs(Tail(s))
         IN  rest \cup {<<Head(s)>> \o t : t \in rest}

ColumnSelections == {cs \in SubSeqs(FullColumns) : Len(cs) >= 2}

FilesByColumns ==
    {CsvFile(cs, <<RowFor(cs, PlainRow)>>) : cs \in ColumnSelections}
        \cup {CsvFile(cs, <<>>) : cs \in ColumnSelections}

\* LongRows plain rows, the last without a Name
LongFile ==
    CsvFile(FullColumns,
            [i \in 1..LongRows |->
                RowFor(FullColumns,
                       IF i = LongRows THEN [PlainRow EXCEPT !["Name"] = <<>>]
                       ELSE PlainRow)])

CsvFiles ==
    FilesVarying(FullColumns, "Where born", "State", BornStateValues)
        \cup FilesVarying(FullColumns, "Compensation per annum", "Compensation per annum",
                          CompensationValues)
        \cup FilesVarying(WithPostmaster, "Name", "Postmaster", OtherValues)
        \cup FilesByColumns
        \cup {LongFile, Unreadable}

-----------------------------------------------------------------------------
(* Specifications *)

\* detect_table_structure on one page
Init ==
    /\ \E page \in Pages : DetectInit(page)
    /\ ParseIdle
    /\ ExtractIdle
    /\ BatchIdle
    /\ DocIdle
    /\ PdfIdle
    /\ ValidateIdle

Next == DetectNext

Spec == Init /\ [][Next]_vars

\* _parse_csv_with_confidence on one text
InitParser ==
    /\ DetectIdle
    /\ \E text \in Texts : ParseInit(text)
    /\ ExtractIdle
    /\ BatchIdle
    /\ DocIdle
    /\ PdfIdle
    /\ ValidateIdle

NextParser == ParseNext

SpecParser == InitParser /\ [][NextParser]_vars

\* extract_table_from_pdf_page, the service answering each call with one of
\* Responses or an error
InitSelector ==
    /\ DetectIdle
    /\ ParseIdle
    /\ \E n \in 0..MaxRetry : ExtractInit(n)
    /\ BatchIdle
    /\ DocIdle
    /\ PdfIdle
    /\ ValidateIdle

NextSelector ==
    \/ \E text \in Responses : AttemptGoodEnough(text)
    \/ \E text \in Responses : AttemptUsable(text)
    \/ \E text \in Responses : AttemptFallsThrough(text)
    \/ AttemptRaisesRetry
    \/ AttemptRaisesLast
    \/ ExtractNoData
    \/ ExtractReturn

SpecSelector == InitSelector /\ [][NextSelector]_vars

\* batch_process over up to MaxFiles files and a pool of up to MaxWorkers
InitBatch ==
    /\ DetectIdle
    /\ ParseIdle
    /\ ExtractIdle
    /\ \E n \in 0..MaxFiles : \E w \in 1..MaxWorkers : \E k \in 0..n : BatchInit(n, w, k)
    /\ DocIdle
    /\ PdfIdle
    /\ ValidateIdle

NextBatch == BatchNext

SpecBatch == InitBatch /\ [][NextBatch]_vars

\* process_document on one document, with or without max_pages
InitDocument ==
    /\ DetectIdle
    /\ ParseIdle
    /\ ExtractIdle
    /\ BatchIdle
    /\ \E d \in Documents : \E max_pages \in 0..MaxPages :
           DocInit(d, PagesToProcess(max_pages, Len(d)))
    /\ PdfIdle
    /\ ValidateIdle

NextDocument == DocNext

SpecDocument == InitDocument /\ [][NextDocument]_vars

\* process_pdf_document on one PDF, the service answering each call with one
\* of Responses or an error
InitPdf ==
    /\ DetectIdle
    /\ ParseIdle
    /\ ExtractIdle
    /\ BatchIdle
    /\ DocIdle
    /\ \E total \in 1..MaxPdfPages : \E s \in 1..MaxPdfPages :
           \E e \in (0 - 1)..(MaxPdfPages + 1) : PdfInit(total, s, e)
    /\ ValidateIdle

NextPdf ==
    \/ PdfStartPage
    \/ \E text \in Responses : AttemptGoodEnough(text)
    \/ \E text \in Responses : AttemptUsable(text)
    \/ \E text \in Responses : AttemptFallsThrough(text)
    \/ AttemptRaisesRetry
    \/ AttemptRaisesLast
    \/ ExtractNoData
    \/ ExtractReturn
    \/ PdfPageReturned
    \/ PdfPageRaised
    \/ PdfCombine

SpecPdf == InitPdf /\ [][NextPdf]_vars


\* validate_csv_file on one file
InitValidator ==
    /\ DetectIdle
    /\ ParseIdle
    /\ ExtractIdle
    /\ BatchIdle
    /\ DocIdle
    /\ PdfIdle
    /\ \E f \in CsvFiles : ValidateInit(f)

NextValidator == ValidateNext

SpecValidator == InitValidator /\ [][NextValidator]_vars

-----------------------------------------------------------------------------
(* detect_table_structure: what the sorted lines say, independently of the   *)
(* loop.  Lines are numbered from 1 here.                                    *)

SetMax(S) == CHOOSE m \in S : \A n \in S : n <= m

\* the interval of column_positions that holds x, zero-based
IntervalOf(xx) ==
    IF \E i \in 0..4 : column_positions[i + 1] <= xx /\ xx < column_positions[i + 2]
    THEN CHOOSE i \in 0..4 : column_positions[i + 1] <= xx /\ xx < column_positions[i + 2]
    ELSE NoColumn

KindHeading == NoColumn - 1

KindSkipped == NoColumn - 2

\* what line i is: skipped, a section heading, or a line for the classifier
\* with its interval
KindOf(i) ==
    IF IsSkipped(i - 1, lines[i]) THEN KindSkipped
    ELSE IF IsStateHeading(lines[i]) THEN KindHeading
    ELSE IntervalOf(lines[i].x)

RECURSIVE KindsUpTo(_)
KindsUpTo(n) == IF n = 0 THEN <<>> ELSE Append(KindsUpTo(n - 1), KindOf(n))

\* the kinds of all lines, as a tuple
Kinds == KindsUpTo(Len(lines))

\* line i reaches the classification step
ReachesClassifier(i) == KindOf(i) \notin {KindSkipped, KindHeading}

\* the lines that open a row
Openers(kd) == {i \in DOMAIN kd : kd[i] = 0}

\* the line that opens the k-th row
OpenerOf(kd, k) ==
    CHOOSE i \in Openers(kd) : Cardinality({j \in Openers(kd) : j <= i}) = k

\* the lines that belong to the k-th row: its opener and the lines written
\* into it before the next row opens
RowLines(kd, k) ==
    LET o == OpenerOf(kd, k)
        later == {j \in Openers(kd) : j > o}
        last == IF later = {} THEN Len(kd) ELSE (CHOOSE m \in later : \A n \in later : m <= n) - 1
    IN  {i \in o..last : kd[i] >= 0}

\* the last line that belongs to the k-th row
ClosingLine(kd, k) == SetMax(RowLines(kd, k))

\* the most recent heading at or before line i
HeadingAtOrBefore(kd, i) ==
    LET H == {j \in 1..i : kd[j] = KindHeading}
    IN  IF H = {} THEN None ELSE RStripDot(lines[SetMax(H)].text)

\* the text the lines put into column ci (1..5) of the k-th row
RawCell(kd, k, ci) ==
    LET W == {i \in RowLines(kd, k) : kd[i] = ci - 1}
    IN  IF W = {} THEN <<>> ELSE lines[SetMax(W)].text

\* the assembled table the lines describe, before the pass
RawTable(kd) ==
    [k \in 1..Cardinality(Openers(kd)) |-> [ci \in 1..5 |-> RawCell(kd, k, ci)]] @@ <<>>

\* the nearest cell of column ci that is no ditto mark, in rows 1..k
LastNonDitto(raw, k, ci) ==
    LET P == {j \in 1..k : ~IsDitto(raw[j][ci])}
    IN  IF P = {} THEN <<>> ELSE raw[SetMax(P)][ci]

\* a table none of whose data cells is a ditto mark
NoDittoIn(rows) ==
    \A k \in 1..Len(rows) : \A c \in ColumnNameSet : ~IsDitto(rows[k][c])

DataCells(rows) == [k \in 1..Len(rows) |-> [c \in ColumnNameSet |-> rows[k][c]]]

FreshLastValues == [c \in ColumnNameSet |-> <<>>]

-----------------------------------------------------------------------------
(* Claims on detect_table_structure *)

\* C1: every returned row's State is the most recent section heading at or
\* before the row's closing line (the last line that belongs to the row);
\* a heading that comes later never becomes its State.
C1_StateIsHeadingAtClosing ==
    pc_detect = "done" =>
        LET kd == Kinds
        IN  \A k \in 1..Len(processed_data) :
                processed_data[k]["State"] = HeadingAtOrBefore(kd, ClosingLine(kd, k))

\* C7: a line whose x lies in [boundary[i], boundary[i+1]) is classified
\* into column i; an x equal to a boundary falls into the interval the
\* boundary opens (0.59 is column 3).
C7_HalfOpenIntervals ==
    (line_idx >= 1 /\ ReachesClassifier(line_idx)) =>
        \A i \in 0..4 :
            (column_positions[i + 1] <= lines[line_idx].x
                /\ lines[line_idx].x < column_positions[i + 2]) => col_idx = i

C7_Witness ==
    /\ line_idx >= 1
    /\ ReachesClassifier(line_idx)
    /\ lines[line_idx].x = 59
    /\ col_idx = 3

\* C8: the pass goes through the rows top to bottom; in each data column a
\* cell that is a ditto mark (lower-cased and stripped, "do") becomes the
\* nearest earlier cell of the column that is no ditto mark (the empty
\* initial value when there is none), any other cell is kept, and
\* last_values holds the nearest cell that is no ditto mark so far.
C8_DittoTakesNearestValue ==
    pc_detect \in {"post", "done"} =>
        LET raw == RawTable(Kinds)
        IN  /\ \A k \in 1..Len(processed_data) : \A ci \in 1..5 :
                   processed_data[k][column_names[ci]] = LastNonDitto(raw, k, ci)
            /\ \A ci \in 1..5 :
                   last_values[column_names[ci]]
                       = LastNonDitto(raw, Len(processed_data), ci)

C8_Witness ==
    /\ pc_detect = "done"
    /\ LET raw == RawTable(Kinds)
       IN  \E k \in 2..Len(processed_data) :
               /\ raw[k][2] = tDo
               /\ raw[k - 1][2] = tOhio
               /\ processed_data[k]["Where born"] = tOhio

\* C9: the pass applied again to a table without ditto marks returns the
\* same table: to the returned rows, and to assembled rows that had none.
C9_PassIdempotent ==
    /\ (pc_detect = "done" /\ NoDittoIn(processed_data)) =>
           DittoPass(processed_data, FreshLastValues, current_state) = processed_data
    /\ (pc_detect = "post" /\ processed_data = <<>> /\ NoDittoIn(table_data)) =>
           DataCells(DittoPass(table_data, FreshLastValues, current_state))
               = DataCells(table_data)

C9_Witness ==
    /\ pc_detect = "done"
    /\ Len(processed_data) >= 2
    /\ NoDittoIn(processed_data)
    /\ processed_data[1]["Name"] # processed_data[2]["Name"]
    /\ \E k \in 1..Len(processed_data) : RawCell(Kinds, k, 2) = tDo

ScenarioRow(postOffice) ==
    [c \in ColumnNameSet \cup {"State"} |->
        CASE c = "Name" -> tSmithJohn
          [] c = "Where born" -> tOhio
          [] c = "Post-office" -> postOffice
          [] c = "State" -> tAlabama
          [] OTHER -> <<>>]

\* C10 as stated: the four lines yield exactly one row, with Name
\* "Smith, John", Post-office "Columbus" and State "Alabama".
C10_AsStated ==
    (pc_detect = "done"
        /\ lines \in {CollectLines(ScenarioBare), CollectLines(ScenarioBelowHeader),
                      CollectLines(ScenarioBelowRow)}) =>
        /\ Len(processed_data) = 1
        /\ processed_data[1]["Name"] = tSmithJohn
        /\ processed_data[1]["Post-office"] = tColumbus
        /\ processed_data[1]["State"] = tAlabama

\* C10 amended: the four lines alone are the skipped leading lines and
\* yield no row; below the five leading lines they yield exactly one row
\* with Name "Smith, John", Where born "Ohio", State "Alabama" and an empty
\* Post-office, the cache being empty at the start of the call; the
\* Post-office is "Columbus" when an earlier row of the page holds it, and
\* that row is returned as well.
C10_Scenario ==
    pc_detect = "done" =>
        /\ lines = CollectLines(ScenarioBare) => processed_data = <<>>
        /\ lines = CollectLines(ScenarioBelowHeader) =>
               processed_data = <<ScenarioRow(<<>>)>>
        /\ lines = CollectLines(ScenarioBelowRow) =>
               /\ Len(processed_data) = 2
               /\ processed_data[1]["Post-office"] = tColumbus
               /\ processed_data[2] = ScenarioRow(tColumbus)

C10_Witness ==
    /\ pc_detect = "done"
    /\ lines = CollectLines(ScenarioBelowRow)
    /\ Len(processed_data) = 2
    /\ processed_data[2]["Post-office"] = tColumbus


\* the line the row loop is at, and what it is
LoopStep == pc_detect = "scan" /\ line_idx < Len(lines) /\ line_idx' = line_idx + 1

LineKind == KindOf(line_idx + 1)

\* rows 1..n of the table are the same before and after the step
SameRows(n) == \A k \in 1..n : table_data'[k] = table_data[k]

\* C24: in the row loop only the last row of the table is open. A line of
\* column 0 appends a new row that holds its text under Name and nothing
\* else, leaving every earlier row as it was; a line of column i > 0
\* replaces cell i of the last row with its text, whatever the cell held,
\* and changes no other cell of any row; any other line changes no row.
C24_OneOpenRow ==
    [][LoopStep =>
          LET n == Len(table_data)
              text == lines[line_idx + 1].text
          IN  IF LineKind = 0
              THEN /\ Len(table_data') = n + 1
                   /\ SameRows(n)
                   /\ table_data'[n + 1] = [EmptyRow EXCEPT !["Name"] = text]
              ELSE IF LineKind > 0 /\ n > 0
              THEN /\ Len(table_data') = n
                   /\ SameRows(n - 1)
                   /\ table_data'[n] =
                          [table_data[n] EXCEPT ![column_names[LineKind + 1]] = text]
              ELSE table_data' = table_data]_vars

\* a line has replaced a cell the second row already held, the first row
\* holding another text in that column
C24_Witness ==
    /\ pc_detect = "scan"
    /\ Len(table_data) = 2
    /\ line_idx >= 2
    /\ KindOf(line_idx) = 1
    /\ KindOf(line_idx - 1) = 1
    /\ lines[line_idx].text # lines[line_idx - 1].text
    /\ table_data[2]["Where born"] = lines[line_idx].text
    /\ table_data[1]["Where born"] # table_data[2]["Where born"]

\* text is s followed by one or more periods, and s ends with none
IsWithoutTrailingPeriods(s, text) ==
    /\ Len(s) < Len(text)
    /\ s = SubSeq(text, 1, Len(s))
    /\ \A i \in (Len(s) + 1)..Len(text) : text[i] = "."
    /\ (s = <<>> \/ s[Len(s)] # ".")

\* line i is not skipped, lies left of 0.3, ends with a period and has at
\* most two tokens
HeadingShape(i) ==
    /\ i - 1 >= 5
    /\ ~Contains(Upper(lines[i].text), RunningHeader)
    /\ lines[i].x < 30
    /\ lines[i].text[Len(lines[i].text)] = "."
    /\ TokenCount(lines[i].text) <= 2

\* C25: a line of the heading shape sets current_state to its text without
\* the trailing periods and changes no row; no other step of the call
\* changes current_state.
C25_HeadingSetsStateOnly ==
    [][IF LoopStep /\ HeadingShape(line_idx + 1)
       THEN /\ IsWithoutTrailingPeriods(current_state', lines[line_idx + 1].text)
            /\ table_data' = table_data
       ELSE current_state' = current_state]_vars

\* the heading 'Ala.' has set the state to 'Ala' below a row, and the line
\* 'N. Y. C.' at the same position has left it alone
C25_Witness ==
    /\ pc_detect = "scan"
    /\ line_idx >= 2
    /\ lines[line_idx - 1].text = tAla
    /\ HeadingShape(line_idx - 1)
    /\ lines[line_idx].text = tNYC
    /\ lines[line_idx].x < 30
    /\ current_state = <<"A", "l", "a">>

\* C26 as stated: a line that reaches the classifier gets a column 0..4
\* when its x is in the closed range [0, 1], and none only outside it
C26_AsStated ==
    (line_idx >= 1 /\ ReachesClassifier(line_idx)) =>
        IF 0 <= lines[line_idx].x /\ lines[line_idx].x <= 100
        THEN col_idx \in 0..4
        ELSE col_idx = NoColumn

\* C26: a line that reaches the classifier gets a column 0..4 exactly when
\* 0 <= x < 1; an x below 0 and an x of 1.0 or more get none
C26_ColumnIffInHalfOpenRange ==
    (line_idx >= 1 /\ ~IsSkipped(line_idx - 1, lines[line_idx])
        /\ ~IsStateHeading(lines[line_idx])) =>
        IF 0 <= lines[line_idx].x /\ lines[line_idx].x < 100
        THEN col_idx \in 0..4
        ELSE col_idx = NoColumn

\* a line at x = 1.0 was left without a column
C26_Witness ==
    /\ line_idx >= 1
    /\ ReachesClassifier(line_idx)
    /\ lines[line_idx].x = 100
    /\ col_idx = NoColumn


\* the columns of a returned row
ReturnedColumns == ColumnNameSet \cup {"State"}

IsUnresolvedDitto(cell) == cell # None /\ IsDitto(cell)

\* C33: in the table detect_table_structure returns, no cell of the five data
\* columns and no cell of the State column is a ditto mark (lower-cased and
\* stripped, "do"), so the table gives the validator's check of unresolved
\* ditto marks nothing to find.
C33_NoDittoReturned ==
    pc_detect = "done" =>
        \A k \in DOMAIN processed_data : \A c \in ReturnedColumns :
            ~IsUnresolvedDitto(processed_data[k][c])

\* line i has no effect: it is skipped, it reaches the classifier and lies in
\* no column interval, or it lies in a column i > 0 while no row is open
WithoutEffect(i) ==
    \/ KindOf(i) = KindSkipped
    \/ KindOf(i) = NoColumn
    \/ KindOf(i) > 0 /\ table_data = <<>>

\* C39: a line that is skipped (one of the five leading lines of the sorted
\* page, or one that holds the running header), a line that reaches the
\* classifier and lies in no column interval, and a line of a column i > 0
\* met while no row is open, change nothing: the rows, their cells, the
\* section state and the cache are after the step what they were before.
C39_NoEffect ==
    [][(LoopStep /\ WithoutEffect(line_idx + 1)) =>
           /\ table_data' = table_data
           /\ current_state' = current_state
           /\ last_values' = last_values
           /\ processed_data' = processed_data]_vars

\* below the leading lines a line of column 1 was dropped for want of a row,
\* a heading set the state, and a line right of every interval left the
\* state and the empty table as they were
C39_Witness ==
    /\ pc_detect = "scan"
    /\ line_idx = Len(lines)
    /\ line_idx >= 8
    /\ KindOf(1) = KindSkipped
    /\ KindOf(line_idx - 2) = 1
    /\ KindOf(line_idx - 1) = KindHeading
    /\ KindOf(line_idx) = NoColumn
    /\ current_state = <<"A", "l", "a">>
    /\ table_data = <<>>
-----------------------------------------------------------------------------
(* Claims about _parse_csv_with_confidence.  Fields are counted here by the *)
(* commas of a line, independently of the parser's own splitting.           *)

CommaAt(line) == {i \in 1..Len(line) : line[i] = ","}

FieldCount(line) == Cardinality(CommaAt(line)) + 1

NthComma(line, n) ==
    CHOOSE p \in CommaAt(line) : Cardinality({q \in CommaAt(line) : q <= p}) = n

FieldStart(line, i) == IF i = 1 THEN 1 ELSE NthComma(line, i - 1) + 1

FieldEnd(line, i) == IF i = FieldCount(line) THEN Len(line) ELSE NthComma(line, i) - 1

FieldText(line, i) == SubSeq(line, FieldStart(line, i), FieldEnd(line, i))

RestFrom(line, i) == SubSeq(line, FieldStart(line, i), Len(line))

\* the lines of a text that are not blank: the header line, then the data lines
TextLines(text) == SelectSeq(SplitOn(text, "\n"), LAMBDA l : Strip(l) # <<>>)

AllDataLinesMatchHeader(text) ==
    LET ls == TextLines(text)
    IN  /\ ls # <<>>
        /\ \A j \in 2..Len(ls) : FieldCount(ls[j]) = FieldCount(ls[1])

SomeDataLineShorter(text) ==
    LET ls == TextLines(text)
    IN  \E j \in 2..Len(ls) : FieldCount(ls[j]) < FieldCount(ls[1])

\* no data line after the first has more fields than the wider of the header
\* and the first data line
StrictAccepts(text) ==
    LET ls == TextLines(text)
    IN  /\ ls # <<>>
        /\ \A j \in 3..Len(ls) :
               FieldCount(ls[j]) <= Wider(FieldCount(ls[1]), FieldCount(ls[2]))

ParseReturned == pc_parse = "returned"

\* the call went through the manual tier's row loop
ManualReached == pc_parse = "rows" \/ (pc_parse = "returned" /\ Len(parse_lines) >= 2)

ManualRowsAllFull ==
    \A j \in 2..Len(parse_lines) : FieldCount(parse_lines[j]) >= FieldCount(parse_lines[1])

tABC == <<"A", ",", "B", ",", "C">>

\* "1,2,3,4,5"
t12345 == <<"1", ",", "2", ",", "3", ",", "4", ",", "5">>

\* "3,4,5"
t345 == <<"3", ",", "4", ",", "5">>

\* C6: in the manual tier a data line of k comma-separated fields under a
\* header of h fields gets the confidence min(k/h, 1.0) and a row of exactly
\* h fields: its own fields, the h-th one being the whole rest of the line
\* when k > h, and empty strings after the k-th when k < h.  Header "A,B,C"
\* with line "1,2,3,4,5" gives the row [1, 2, "3,4,5"] with confidence 1.0.
C6_ManualRepair ==
    ManualReached =>
        LET h == FieldCount(parse_lines[1])
        IN  /\ Len(header) = h
            /\ Len(row_confidences) = Len(data)
            /\ \A j \in 1..Len(data) :
                   LET line == parse_lines[j + 1]
                       k == FieldCount(line)
                   IN  /\ ConfEq(row_confidences[j], IF k < h THEN <<k, h>> ELSE <<1, 1>>)
                       /\ Len(data[j]) = h
                       /\ \A i \in 1..h :
                              data[j][i] = IF i > k THEN <<>>
                                           ELSE IF i = h /\ k > h THEN RestFrom(line, h)
                                           ELSE FieldText(line, i)
                       /\ parse_lines[1] = tABC /\ line = t12345 =>
                              /\ data[j] = <<<<"1">>, <<"2">>, t345>>
                              /\ ConfEq(row_confidences[j], ConfOne)
            /\ ParseReturned =>
                   /\ Len(data) = Len(parse_lines) - 1
                   /\ df.rows = data
                   /\ df.columns = header
                   /\ df.extraction_confidence = row_confidences

\* the manual tier has repaired a line that was too short and the line
\* "1,2,3,4,5" under the header "A,B,C"
C6_Witness ==
    /\ ParseReturned
    /\ Len(parse_lines) >= 2
    /\ parse_lines[1] = tABC
    /\ \E j \in 1..Len(data) :
           /\ parse_lines[j + 1] = t12345
           /\ data[j] = <<<<"1">>, <<"2">>, t345>>
    /\ \E j \in 1..Len(data) :
           /\ FieldCount(parse_lines[j + 1]) < 3
           /\ data[j][3] = <<>>


\* the call returned from one of the two pandas parses
PandasReturned == ParseReturned /\ parse_lines = <<>>

\* the call returned from the manual tier
ManualReturned == ParseReturned /\ parse_lines # <<>>

\* C27 as stated: a returned confidence equal to 0.8 means that the strict
\* parse failed and the relaxed parse succeeded
C27_AsStated ==
    (ParseReturned /\ ConfEq(confidence, <<4, 5>>)) =>
        (~StrictAccepts(cleaned_text) /\ RelaxedParses(cleaned_text))

\* C27: the tiers run in the order strict, relaxed, manual, each only after
\* every earlier one failed: the relaxed parse is tried only on a text the
\* strict parse rejects, the manual tier only on a text both reject; a text
\* the strict parse accepts returns 1.0 from it, a text only the relaxed
\* parse accepts returns 0.8 from it.  A confidence equal to 0.8 is returned
\* only when the strict parse failed, by the relaxed parse or as the mean of
\* the manual tier's rows.
C27_TiersInOrder ==
    /\ pc_parse = "relaxed" => ~StrictAccepts(cleaned_text)
    /\ pc_parse \in {"manual", "rows"} \/ ManualReturned =>
           ~StrictAccepts(cleaned_text) /\ ~RelaxedParses(cleaned_text)
    /\ PandasReturned =>
           IF StrictAccepts(cleaned_text) THEN confidence = <<1, 1>>
           ELSE RelaxedParses(cleaned_text) /\ confidence = <<4, 5>>
    /\ (ParseReturned /\ ConfEq(confidence, <<4, 5>>)) => ~StrictAccepts(cleaned_text)

\* the relaxed parse returned 0.8 on a text the strict parse rejects
C27_Witness ==
    /\ PandasReturned
    /\ ~StrictAccepts(cleaned_text)
    /\ confidence = <<4, 5>>
    /\ Len(df.rows) >= 1

RECURSIVE FullFieldsUpTo(_, _)
\* the sum over lines 2..n of min(fields of the line, fields of the header)
FullFieldsUpTo(ls, n) ==
    IF n <= 1 THEN 0
    ELSE FullFieldsUpTo(ls, n - 1)
             + (IF FieldCount(ls[n]) < FieldCount(ls[1]) THEN FieldCount(ls[n])
                ELSE FieldCount(ls[1]))

\* C28 as stated: the manual tier returns the mean of the per-row
\* confidences, and 0.5 when it has no data row
C28_AsStated ==
    ManualReturned =>
        IF Len(parse_lines) >= 2
        THEN ConfEq(confidence,
                    <<FullFieldsUpTo(parse_lines, Len(parse_lines)),
                      FieldCount(parse_lines[1]) * (Len(parse_lines) - 1)>>)
        ELSE ConfEq(confidence, <<1, 2>>)

\* C28: with data lines the manual tier returns the mean of the per-row
\* confidences min(k/h, 1.0), and row j of the table carries the confidence
\* of data line j in extraction_confidence; with no data line it returns the
\* empty table with confidence 0.0, so that 0.5 is never returned for a text
\* without data rows.
C28_MeanOfRows ==
    ManualReturned =>
        IF Len(parse_lines) >= 2
        THEN LET h == FieldCount(parse_lines[1])
                 n == Len(parse_lines) - 1
             IN  /\ ConfEq(confidence, <<FullFieldsUpTo(parse_lines, n + 1), h * n>>)
                 /\ Len(df.rows) = n
                 /\ Len(df.extraction_confidence) = n
                 /\ \A j \in 1..n :
                        ConfEq(df.extraction_confidence[j],
                               <<IF FieldCount(parse_lines[j + 1]) < h
                                 THEN FieldCount(parse_lines[j + 1]) ELSE h, h>>)
        ELSE confidence = <<0, 1>> /\ df = EmptyFrame

\* the manual tier returned 4/5 for "a,b,c,d,e" with rows of 3/5 and 1.0
C28_Witness ==
    /\ ManualReturned
    /\ csv_text = tMeanOfTwo
    /\ ConfEq(confidence, <<4, 5>>)
    /\ ConfEq(df.extraction_confidence[1], <<3, 5>>)
    /\ ConfEq(df.extraction_confidence[2], <<1, 1>>)

\* the field counts of the lines of a text, line by line
FieldCounts(text) ==
    LET ls == SplitOn(text, "\n") IN [i \in 1..Len(ls) |-> FieldCount(ls[i])]

\* C29: the text the tiers parse has the lines of the text received, each
\* with the same number of fields: the pre-pass changes no field count
C29_FieldCountsKept ==
    pc_parse \notin {"idle", "clean"} => FieldCounts(cleaned_text) = FieldCounts(csv_text)

\* C30: every step of a call that can fail is caught or cannot fail (the
\* header of the manual tier has at least one field to divide by); the
\* returned confidence lies in [0, 1], and a returned confidence of 0.0
\* comes with the empty table
C30_ConfidenceInRange ==
    /\ pc_parse = "rows" => Len(header) >= 1 /\ Len(data) <= Len(parse_lines) - 1
    /\ ParseReturned =>
           /\ confidence[2] > 0
           /\ 0 <= confidence[1]
           /\ confidence[1] <= confidence[2]
           /\ ConfEq(confidence, <<0, 1>>) => (df = EmptyFrame /\ IsEmptyFrame(df))
           /\ \A j \in 1..Len(df.extraction_confidence) :
                  ConfGT(df.extraction_confidence[j], <<0, 1>>)

\* a blank text ended as the total failure, and not in an error
C30_Witness ==
    /\ ManualReturned
    /\ Len(parse_lines) = 1
    /\ csv_text # <<>>
    /\ confidence = <<0, 1>>
    /\ df = EmptyFrame


CommaCount(line) == Cardinality(CommaAt(line))

\* C36: _clean_csv_text keeps the row structure of its input: the cleaned
\* text has as many lines as the text received, and each line has as many
\* commas as the line it comes from; no two lines and no two fields are
\* merged.
C36_RowStructureKept ==
    pc_parse \notin {"idle", "clean"} =>
        LET received == SplitOn(csv_text, "\n")
            cleaned == SplitOn(cleaned_text, "\n")
        IN  /\ Len(cleaned) = Len(received)
            /\ \A i \in 1..Len(received) : CommaCount(cleaned[i]) = CommaCount(received[i])

\* C37: a table without data rows is returned with the confidence 0.0 only:
\* no empty table has a confidence above 0, so none has a confidence above
\* the 0.9 at which the selector stops retrying.
C37_EmptyMeansZero ==
    (ParseReturned /\ IsEmptyFrame(df)) =>
        /\ ConfEq(confidence, ConfZero)
        /\ ~ConfGT(confidence, GoodEnough)
-----------------------------------------------------------------------------
(* Claims about extract_table_from_pdf_page *)

ExtractReturned == pc_extract = "returned"

\* the attempts that completed: the service answered and the answer was parsed
Completed == {i \in DOMAIN outcomes : ~outcomes[i].raised}

NonEmptyAttempts == {i \in Completed : ~IsEmptyFrame(outcomes[i].df)}

\* C2 as stated: the returned confidence is >= the confidence of every
\* attempt that completed during the call.
C2_AsStated ==
    ExtractReturned =>
        \A i \in Completed : ~ConfGT(outcomes[i].confidence, result.confidence)

\* C2: the returned (table, confidence) is that of a completed attempt with a
\* non-empty table, and its confidence is >= the confidence of every
\* completed attempt whose table is not empty; an attempt with an empty
\* table is never retained, whatever its confidence.
C2_BestNonEmptyAttempt ==
    ExtractReturned =>
        /\ \A i \in NonEmptyAttempts : ~ConfGT(outcomes[i].confidence, result.confidence)
        /\ \E i \in NonEmptyAttempts :
               /\ outcomes[i].df = result.df
               /\ outcomes[i].confidence = result.confidence

\* a call returned the better of two non-empty attempts, having also seen an
\* empty table of a higher confidence
C2_Witness ==
    /\ ExtractReturned
    /\ \E i \in NonEmptyAttempts : \E j \in NonEmptyAttempts :
           /\ i < j
           /\ ConfGT(outcomes[j].confidence, outcomes[i].confidence)
           /\ result.confidence = outcomes[j].confidence
    /\ \E k \in Completed :
           /\ IsEmptyFrame(outcomes[k].df)
           /\ ConfGT(outcomes[k].confidence, result.confidence)

\* the service calls among the events
CallsIn(ev) == {p \in DOMAIN ev : ev[p] = "call"}

\* where the i-th service call is among the events
NthCall(i) ==
    CHOOSE p \in CallsIn(events) : Cardinality({q \in CallsIn(events) : q <= p}) = i

ExtractOver == pc_extract \in {"after_loop", "returned", "raised_no_data", "raised_api_error"}

IsGoodEnough(i) == ~outcomes[i].raised /\ ConfGT(outcomes[i].confidence, <<9, 10>>)

IsUsable(i) ==
    /\ ~outcomes[i].raised
    /\ ~ConfGT(outcomes[i].confidence, <<9, 10>>)
    /\ ConfGT(outcomes[i].confidence, <<1, 2>>)

\* the attempt after the i-th, if it was made, came after one sleep; and the
\* call cannot be over without it
RetriedAfterDelay(i) ==
    /\ Len(events) > NthCall(i)
    /\ events[NthCall(i) + 1] = "sleep"
    /\ ExtractOver => Len(outcomes) > i
    /\ Len(outcomes) > i => events[NthCall(i) + 2] = "call"

\* C13: an attempt whose confidence is > 0.9 is the last one: it ends the
\* loop, and no service call and no sleep follow it, however many attempts
\* remain.
C13_StopsWhenGoodEnough ==
    /\ Cardinality(CallsIn(events)) = Len(outcomes)
    /\ \A i \in DOMAIN outcomes :
           IsGoodEnough(i) =>
               /\ i = Len(outcomes)
               /\ NthCall(i) = Len(events)
               /\ ExtractOver

\* the second of three permitted attempts was good enough
C13_Witness ==
    /\ pc_extract = "returned"
    /\ retry_count = 3
    /\ Len(outcomes) = 2
    /\ IsGoodEnough(2)
    /\ events = <<"call", "sleep", "call">>

\* C14: after an attempt with 0.5 < confidence <= 0.9 that is not the last
\* permitted one, another service call is made, and only after a sleep of
\* retry_delay; after the last permitted attempt no call is made.
C14_UsableRetriesAfterDelay ==
    /\ Cardinality(CallsIn(events)) = Len(outcomes)
    /\ Len(outcomes) <= retry_count
    /\ \A i \in DOMAIN outcomes :
           IsUsable(i) =>
               IF i < retry_count THEN RetriedAfterDelay(i)
               ELSE NthCall(i) = Len(events) /\ ExtractOver

\* a usable first attempt was followed, after a sleep, by a second one
C14_Witness ==
    /\ pc_extract = "returned"
    /\ Len(outcomes) >= 2
    /\ IsUsable(1)
    /\ SubSeq(events, 1, 3) = <<"call", "sleep", "call">>

\* C15: a service call that raises while attempts remain is followed by a
\* sleep and another call, at most retry_count calls are made, and when the
\* last permitted call raises the error goes to the caller and nothing is
\* returned.
C15_RaiseRetriedThenPropagated ==
    /\ Cardinality(CallsIn(events)) = Len(outcomes)
    /\ Len(outcomes) <= retry_count
    /\ \A i \in DOMAIN outcomes :
           outcomes[i].raised =>
               IF i < retry_count THEN RetriedAfterDelay(i)
               ELSE /\ NthCall(i) = Len(events)
                    /\ pc_extract = "raised_api_error"
                    /\ result = NoResult
    /\ pc_extract = "raised_api_error" =>
           /\ Len(outcomes) = retry_count
           /\ outcomes[retry_count].raised

\* a call raised, was retried after a sleep and answered; another raised on
\* the last permitted call although a table had been retained
C15_Witness ==
    /\ pc_extract = "raised_api_error"
    /\ retry_count = 3
    /\ outcomes[1].raised
    /\ ~outcomes[2].raised
    /\ ~IsEmptyFrame(best_df)
    /\ events = <<"call", "sleep", "call", "sleep", "call">>

\* C16: the hard failure "no usable data" is signalled only after all
\* retry_count attempts were made, each of them having raised or finished
\* with an empty table of confidence 0.0; a returned table is never empty.
C16_HardFailureOnlyAfterAllAttempts ==
    /\ pc_extract = "raised_no_data" =>
           /\ Len(outcomes) = retry_count
           /\ \A i \in Completed :
                  /\ IsEmptyFrame(outcomes[i].df)
                  /\ ConfEq(outcomes[i].confidence, ConfZero)
    /\ pc_extract = "returned" => ~IsEmptyFrame(result.df)


\* C34: within one call of extract_table_from_pdf_page a sleep of
\* retry_delay stands between any two consecutive service calls, whatever
\* the earlier call gave: an error, a confidence <= 0.5 or a confidence in
\* (0.5, 0.9].
C34_PauseBetweenCalls ==
    \A i \in 1..(Len(events) - 1) :
        events[i] = "call" => events[i + 1] = "sleep"

\* the call has ended, by a return or by a raise
ExtractEnded == pc_extract \in {"returned", "raised_no_data", "raised_api_error"}

\* C35: once an attempt has produced a non-empty table, the call ends by
\* returning a non-empty table, whatever the later attempts did (raised a
\* service error, or gave an empty table).
C35_BestNeverLost ==
    (ExtractEnded /\ NonEmptyAttempts # {}) =>
        /\ ExtractReturned
        /\ ~IsEmptyFrame(result.df)
-----------------------------------------------------------------------------
(* Claims about batch_process *)

EntriesFor(entries, f) == {i \in DOMAIN entries : entries[i].file = f}

BatchDone == pc_batch = "done"

\* the status the ledger owes a file whose future is done
StatusOwed(f) == IF outcome[f] = FutureRaised THEN "executor_error" ELSE outcome[f]

\* C3: when batch_process finishes, the ledger holds exactly one entry for
\* each file found, whichever files raised in process_document or in the
\* executor; at no time does a file have two entries.
C3_OneEntryPerFile ==
    /\ \A f \in all_files : Cardinality(EntriesFor(results, f)) <= 1
    /\ BatchDone /\ all_files # {} =>
           /\ summary_file.exists
           /\ Len(summary_file.content) = Cardinality(all_files)
           /\ \A f \in all_files :
                  /\ Cardinality(EntriesFor(summary_file.content, f)) = 1
                  /\ \A i \in EntriesFor(summary_file.content, f) :
                         summary_file.content[i].status = StatusOwed(f)

\* a batch of several files finished with a success, a file whose
\* processing raised and a file whose future raised
C3_Witness ==
    /\ BatchDone
    /\ \E i \in DOMAIN summary_file.content : summary_file.content[i].status = "success"
    /\ \E i \in DOMAIN summary_file.content : summary_file.content[i].status = "error"
    /\ \E i \in DOMAIN summary_file.content :
           summary_file.content[i].status = "executor_error"

\* C4: while results are collected, the ledger file holds an entry for
\* every file whose completion the orchestrator has handled, whether its
\* future returned or raised.
C4_LedgerFileCoversHandled ==
    pc_batch = "collect" =>
        \A f \in handled : EntriesFor(summary_file.content, f) # {}

\* C22: a finished run of batch_process has left the ledger file, and the
\* file holds an entry for every file found, whatever the directory held
\* (no matching file included) and whatever the outcomes were.
C22_AlwaysLeavesLedger ==
    BatchDone =>
        /\ summary_file.exists
        /\ \A f \in all_files : EntriesFor(summary_file.content, f) # {}

\* the files the "Failed files" warnings list
FailedListed == {failed_log.files[i].file : i \in DOMAIN failed_log.files}

\* C23: a file whose processing left no output (all its pages gave zero rows)
\* has no error status in the finished ledger and is neither counted nor
\* listed among the failed files.
C23_EmptyIsNotFailure ==
    BatchDone =>
        \A f \in all_files :
            outcome[f] = "empty_output" =>
                /\ \A i \in EntriesFor(summary_file.content, f) :
                       summary_file.content[i].status \notin {"error", "executor_error"}
                /\ f \notin FailedListed
                /\ failed_log.count <=
                       Cardinality({g \in all_files : outcome[g] # "empty_output"})


\* C31: the ledger file is written by the orchestrator only: no step of a
\* worker process (a step that changes the state of a future) changes what
\* processing_summary.csv holds, so no two writers of the file are ever at
\* work, whatever the order of the completions.
C31_OnlyOrchestratorWrites ==
    [][summary_file' # summary_file => task' = task]_vars

IsPrefix(s, t) == Len(s) <= Len(t) /\ SubSeq(t, 1, Len(s)) = s

\* where the future of a file stands in the order of completion
CompletionRank(f) == CHOOSE i \in DOMAIN finish_order : finish_order[i] = f

InCompletionOrder(entries) ==
    \A i, j \in DOMAIN entries :
        i < j => CompletionRank(entries[i].file) < CompletionRank(entries[j].file)

\* C32: the entries of the ledger stand in the order in which their files
\* completed, and the ledger only grows: what the ledger held, in memory and
\* in the file, is a prefix of what it holds after any step.
C32_AppendOnlyInCompletionOrder ==
    /\ [](InCompletionOrder(results))
    /\ [][/\ IsPrefix(results, results')
          /\ summary_file.exists =>
                 /\ summary_file'.exists
                 /\ IsPrefix(summary_file.content, summary_file'.content)]_vars
-----------------------------------------------------------------------------
(* Claims about process_document and the calls of detect_table_structure    *)
(* it makes                                                                 *)

\* the last section heading among the lines of a page, None if it has none
LastHeadingOf(ls) ==
    LET H == {i \in 1..Len(ls) : ~IsSkipped(i - 1, ls[i]) /\ IsStateHeading(ls[i])}
    IN  IF H = {} THEN None ELSE RStripDot(ls[SetMax(H)].text)

\* C11: the rows of page p+1, when page p+1 has no heading of its own, get as
\* State the last heading seen on page p.
C11_HeadingPersistsAcrossPages ==
    \A p \in 1..(Len(page_tables) - 1) :
        LET before == LastHeadingOf(CollectLines(doc[p]))
            own == LastHeadingOf(CollectLines(doc[p + 1]))
        IN  before # None /\ own = None =>
                \A k \in 1..Len(page_tables[p + 1]) :
                    page_tables[p + 1][k]["State"] = before

AllEmptyCache == [c \in ColumnNameSet |-> <<>>]

\* C12: every call of detect_table_structure starts with an empty cache, so
\* the rows it returns depend on its own page only: equal pages of a
\* document give equal rows whatever came before them, and a ditto mark with
\* no earlier value in its column on the same page becomes the empty string,
\* never a value of an earlier page.
C12_CacheResetPerCall ==
    /\ pc_doc = "detect" /\ pc_detect = "scan" => last_values = AllEmptyCache
    /\ \A i \in 1..Len(page_tables) : \A j \in 1..Len(page_tables) :
           doc[i] = doc[j] => page_tables[i] = page_tables[j]
    /\ pc_doc = "detect" /\ pc_detect \in {"post", "done"} =>
           LET raw == RawTable(Kinds)
           IN  \A k \in 1..Len(processed_data) : \A ci \in 1..5 :
                   (\A j \in 1..k : IsDitto(raw[j][ci])) =>
                       processed_data[k][column_names[ci]] = <<>>

\* the second page began with a ditto mark under a column in which the first
\* page had left a value
C12_Witness ==
    /\ pc_doc = "done"
    /\ Len(page_tables) = 2
    /\ doc[2] = pageDittos
    /\ Len(page_tables[1]) >= 1
    /\ page_tables[1][Len(page_tables[1])]["Where born"] = tOhio
    /\ page_tables[2][1]["Where born"] = <<>>
    /\ page_tables[2][1]["Name"] = tJones

-----------------------------------------------------------------------------
(* Claims about process_pdf_document *)

\* the columns a placeholder table is expected to have
ExpectedSchema ==
    <<cName, cWhereBorn, cWhenceAppointed, cPostOffice, cCompensation, cState,
      cPostmaster, cExtractionConfidence>>

PagesWanted == IF end_page < start_page THEN 0 ELSE end_page - start_page + 1

\* C17: process_pdf_document returns exactly one (table, confidence) entry
\* per page from start_page to end_page, in increasing page order; the entry
\* of a page whose extraction raised is an empty table with the expected
\* columns and confidence 0.0, and the pages after it are still processed.
C17_OneEntryPerPage ==
    /\ Len(pdf_results) = Len(pdf_log)
    /\ \A k \in 1..Len(pdf_log) :
           /\ pdf_log[k].page = start_page + k - 1
           /\ pdf_log[k].page <= end_page
           /\ pdf_log[k].raised =>
                  /\ pdf_results[k].df.rows = <<>>
                  /\ pdf_results[k].df.columns = ExpectedSchema
                  /\ pdf_results[k].confidence = <<0, 1>>
           /\ ~pdf_log[k].raised => ~IsEmptyFrame(pdf_results[k].df)
    /\ pc_pdf = "done" => Len(pdf_results) = PagesWanted

\* the extraction of the first of two pages raised and the second page gave
\* a table
C17_Witness ==
    /\ pc_pdf = "done"
    /\ Len(pdf_results) = 2
    /\ pdf_log[1].raised
    /\ ~pdf_log[2].raised
    /\ pdf_results[1].df.columns = ExpectedSchema
    /\ pdf_results[2].df.rows # <<>>

-----------------------------------------------------------------------------
(* validate_csv_file: claims *)

Range(s) == {s[i] : i \in 1..Len(s)}

\* pd.read_csv gave a table
TableRead == csv_file.readable /\ pc_validate \notin {"idle", "read"}

Reported == TableRead /\ pc_validate = "returned"

\* the rows of column j whose cell, lower-cased and stripped, is the ditto marker
DittoRows(frame, j) ==
    {i \in 1..Len(frame.rows) : Strip(Lower(frame.rows[i][j])) = Ditto}

DittoColumns(frame) == {j \in 1..Len(frame.columns) : DittoRows(frame, j) # {}}

\* the columns the contract requires
RequiredColumns ==
    {"Name", "Where born", "Whence appointed", "Post-office",
     "Compensation per annum", "State"}

MissingFrom(frame) == RequiredColumns \ ColumnSet(frame)

\* C18: a report on a table with a cell that, lower-cased and stripped, equals
\* 'do' is invalid and records an issue: the issue of every column that holds
\* such a cell, with the number of those cells, unless processing stopped on
\* an error, which is recorded as an issue instead
C18_DittoMeansInvalid ==
    (Reported /\ DittoColumns(vdf) # {}) =>
        /\ valid = FALSE
        /\ issues # <<>>
        /\ \/ ErrorIssue \in Range(issues)
           \/ \A j \in DittoColumns(vdf) :
                  DittoIssue(vdf.columns[j], Cardinality(DittoRows(vdf, j))) \in Range(issues)

\* a table with every required column and ' Do ' under State is reported
\* invalid for that cell alone
C18_Witness ==
    /\ Reported
    /\ MissingFrom(vdf) = {}
    /\ \E i \in 1..Len(vdf.rows) : vdf.rows[i][ColumnIndex(vdf, "State")] = tDoPadded
    /\ valid = FALSE
    /\ issues = <<DittoIssue("State", 1)>>

\* C19: once the columns were checked, the report is invalid and holds an
\* issue naming exactly the required columns the table lacks when it lacks
\* any, and holds no missing-column issue when it has them all
C19_MissingColumnsReported ==
    (TableRead /\ pc_validate # "columns") =>
        IF MissingFrom(vdf) # {}
        THEN /\ valid = FALSE
             /\ MissingColumnsIssue(MissingFrom(vdf)) \in Range(issues)
        ELSE \A i \in 1..Len(issues) : issues[i].kind # "missing_columns"

\* a table that lacks only State is reported invalid for it
C19_Witness ==
    /\ Reported
    /\ MissingFrom(vdf) = {"State"}
    /\ valid = FALSE
    /\ issues = <<MissingColumnsIssue({"State"})>>

\* more than max_empty_percentage of the values of column j are empty
OverEmptyLimit(frame, j) ==
    empty_count(frame, j) * 100 > max_empty_percentage * Len(frame.rows)

WarnedEmpty(frame, j) ==
    \E i \in 1..Len(warnings) :
        warnings[i].kind = "empty_values" /\ warnings[i].column = frame.columns[j]

\* C20: in a report, valid is False only for missing columns or ditto
\* markers; a column has an empty-value warning exactly when more than
\* max_empty_percentage of its values are empty; compensation values that
\* fail the pattern and State / Where born mismatches each give a warning
C20_WarningsOnly ==
    Reported =>
        /\ valid = FALSE => (MissingFrom(vdf) # {} \/ DittoColumns(vdf) # {})
        /\ \A j \in 1..Len(vdf.columns) : WarnedEmpty(vdf, j) <=> OverEmptyLimit(vdf, j)
        /\ ("Compensation per annum" \in ColumnSet(vdf) /\ invalid_comp(vdf) # {}) =>
               SuspiciousWarning(Cardinality(invalid_comp(vdf))) \in Range(warnings)
        /\ ({"State", "Where born"} \subseteq ColumnSet(vdf) /\ state_mismatch(vdf) > 0) =>
               MismatchWarning(state_mismatch(vdf)) \in Range(warnings)

ValidateOver == pc_validate \in {"returned", "raised"}

\* the report of a call that could not read its file
UnreadableReport ==
    /\ valid = FALSE
    /\ issues = <<ErrorIssue>>
    /\ warnings = <<>>
    /\ row_count = 0

\* C21 as stated: a call ends by raising exactly when its input file is
\* unreadable, and by returning the report otherwise
C21_AsStated == ValidateOver => (pc_validate = "raised" <=> ~csv_file.readable)

\* C21: validate_csv_file never raises; for a readable table it returns the
\* report whatever the data holds, and for an unreadable file it returns the
\* report too, invalid, with the error as its only issue
C21_AlwaysReturnsReport ==
    /\ pc_validate # "raised"
    /\ pc_validate = "returned" =>
           /\ valid \in BOOLEAN
           /\ valid = FALSE <=> issues # <<>>
           /\ ~csv_file.readable => UnreadableReport

\* an unreadable file ended in a returned report
C21_Witness ==
    /\ pc_validate = "returned"
    /\ ~csv_file.readable
    /\ UnreadableReport


\* C38: in a report of validate_csv_file valid is False exactly when there
\* is an issue; valid never goes from False back to True, and a step that
\* adds no issue (one that adds warnings only, or nothing) leaves valid as it
\* was.
C38_ValidIffNoIssue ==
    /\ [](pc_validate = "returned" => (valid = FALSE <=> issues # <<>>))
    /\ [][/\ valid = FALSE => valid' = FALSE
          /\ issues' = issues => valid' = valid]_vars

\* a report with two issues and a warning, and the table behind it
C38_Witness ==
    /\ pc_validate = "returned"
    /\ valid = FALSE
    /\ Len(issues) >= 2
    /\ warnings # <<>>
    /\ TableRead
=============================================================================
